---- MODULE Spec2Model ----
(***************************************************************************)
(* A model of gui-no-kit's managed-process lifecycle: XpraServer           *)
(* (src/src/gui_no_kit/server.py) and LogCapture                           *)
(* (src/src/gui_no_kit/logs.py).                                           *)
(*                                                                         *)
(* One foreground thread drives the public API of one XpraServer; its     *)
(* position is pc.  The operating system (child processes, their output   *)
(* pipes, the display sockets, the TCP port) and the two reader threads   *)
(* of every attachment move on their own, interleaved with it.            *)
(*                                                                         *)
(* Time is counted in ticks of one poll interval (0.2 time units); clock  *)
(* is the time since the running call's reference point (the entry of     *)
(* stop, or `start = time.time()` in _wait_for_socket).                   *)
(***************************************************************************)
EXTENDS Integers, Sequences, FiniteSets, TLC

\* ------------------------------------------------------------------ bounds

\* The machine's process slots: Popen raises once they are used up.
MaxProcs == 2

\* Lines all main processes together write to their output pipes.
MaxLines == 1

\* ------------------------------------------------------- program constants

\* Ticks per time unit: time.sleep(0.2) is one tick.
TicksPerUnit == 5

\* LogCapture.stop: thread.join(timeout=2).
JoinGrace == 2

\* XpraServer.stop(timeout=10).
DefaultStopTimeout == 10

\* XpraServer.stop: self.xvfb_process.wait(timeout=5).
XvfbStopTimeout == 5

\* XpraServer._wait_for_socket(timeout=10).
ProbeTimeout == 10

\* _wait_for_socket: s.settimeout(1).
ConnectTimeout == 1

\* _find_free_display: range(100, 10000).
DisplayFirst == 100

DisplayCeiling == 10000

\* The first numbers of the scanned range whose sockets may or may not exist.
MaxSockets == 3

\* Lines the first process handed to a LogCapture has in its stdout pipe.
MaxPiped == 2

\* ------------------------------------------------------------ input sets

Pids == 1..MaxProcs

None == 0

Tags == {"STDOUT", "STDERR"}

Platforms == {"Linux", "Darwin", "Windows", "FreeBSD"}

\* XpraServer(host="127.0.0.1", port=None)
DefaultHost == "127.0.0.1"

\* The hosts a session is constructed with.
Hosts == {DefaultHost, "0.0.0.0"}

Ports == {14500}

\* The ports the operating system picks from when a socket is bound to port 0.
EphemeralPorts == Ports \cup {14501}

\* The timeouts stop is called with, in time units.
StopTimeouts == {1, DefaultStopTimeout}

\* How long a failed connect attempt takes, in ticks: the slowest one, which runs
\* into the socket's timeout (one refused sooner only shortens the iteration).
ConnectTicks == {ConnectTimeout * TicksPerUnit}

\* How long a bounded wait that ended before its timeout may have taken: the ends
\* of the interval [0, limit].
WaitTicks(limit) == {0, limit}

VARIABLES
    platform,       \* self.platform
    host,           \* self.host
    port,           \* self.port
    display,        \* self.display: a display number, or None
    process,        \* self.process: the pid of the Popen handle, or None
    xvfb_process,   \* self.xvfb_process: the pid of the Popen handle, or None
    stop_event,     \* log_capture._stop_event
    stdout_thread,  \* log_capture.stdout_thread: the pid whose stdout it reads, or None
    stderr_thread,  \* log_capture.stderr_thread
    buffer,         \* log_capture.buffer
    lock,           \* log_capture._lock: the thread that holds it, or None
    procs,          \* the operating system's view of every spawned process
    written,        \* lines each main process has written to each of its pipes
    readers,        \* the reader thread of each pipe: its position and lines read
    sockets,        \* the names of the entries of /tmp/.X11-unix
    listener,       \* the main process listening on (host, port), or None
    pc,             \* the foreground thread's position
    call,           \* the running (or last) call: its arguments and locals
    result,         \* what the last call returned or raised
    clock,          \* ticks since the running call's time reference
    stopLog,        \* the unwinding steps the running (or last) stop has completed
    peer,           \* another XpraServer of the same machine: its fields and position
    client,         \* the PlaywrightClient: its fields
    testcase        \* the XpraGUITestCase: self.server, self.client, its position

vars == <<platform, host, port, display, process, xvfb_process, stop_event,
          stdout_thread, stderr_thread, buffer, lock, procs, written, readers,
          sockets, listener, pc, call, result, clock, stopLog, peer, client,
          testcase>>

sessionVars == <<platform, host, port, display, process, xvfb_process>>

captureVars == <<stop_event, stdout_thread, stderr_thread, buffer, lock>>

osVars == <<procs, written, readers, sockets, listener>>

guiVars == <<client, testcase>>

\* ------------------------------------------------------------- helpers

\* A process: kind is "main" or "helper"; status is "alive", "dying" (the kill
\* signal was delivered to it) or "exited"; disp is the helper's display, or the
\* main process's --display argument; xvfb is the use_xvfb argument of the start
\* that spawned it; bound tells that a helper has created its display's socket;
\* bind is the address the main process was told to bind; pipes holds the
\* streams Popen was given PIPE for (process.stdout, process.stderr not None);
\* stopped tells that a stop has set the stop signal since the capture was
\* attached to the process; args is the argument list Popen was given for the
\* main process.
NoProc == [kind |-> "none", status |-> "unborn", disp |-> None, xvfb |-> FALSE,
           bound |-> FALSE, bind |-> <<>>, pipes |-> {}, stopped |-> FALSE,
           args |-> <<>>]

\* The session that was not constructed: pc is its position ("none", "idle" or
\* "xvfb_settle"), h its _start_xvfb's local `process`.
NoPeer == [pc |-> "none", port |-> None, display |-> None, h |-> None,
           xvfb_process |-> None]

\* A call's arguments and locals: h is _start_xvfb's local `process`; main and
\* helper are the handles recorded when stop was called; ret is the number a
\* call returned, named the platform its error message names, out the lines a
\* call returned, extra the extra_args start was given, url the URL start
\* returned or connect navigated to, probed the address the readiness
\* probe connected to, prev the buffer operation the caller made just before,
\* quiet whether no reader thread was running when that operation was entered,
\* fixture whether the call is made by the xpra_server fixture's teardown.
NoCall == [op |-> "none", xvfb |-> FALSE, warned |-> FALSE, timeout |-> 0,
           h |-> None, main |-> None, helper |-> None, ret |-> None,
           named |-> "", out |-> <<>>, url |-> <<>>, probed |-> <<>>,
           prev |-> "none", quiet |-> FALSE, extra |-> <<>>,
           fixture |-> FALSE]

\* The PlaywrightClient that was not constructed; constructed, ws_url is the
\* URL it was given, playwright, browser and page are its handles (None, or the
\* instance), connected its _connected.
NoClient == [ws_url |-> <<>>, headless |-> FALSE, playwright |-> None,
             browser |-> None, page |-> None, connected |-> FALSE]

\* The XpraGUITestCase outside a test: server and client are self.server and
\* self.client (None, or the object), phase is where the test method is.
NoTestCase == [server |-> None, client |-> None, phase |-> "none"]

\* A reader thread: st is its position in _read_stream ("none" before it is
\* started, "done" once it is over), n the lines it has read.
NoReader == [st |-> "none", n |-> 0]

\* self._stop_event.set() reaches the readers of every process the capture was
\* attached to.
Signalled(ps, rs) ==
    [p \in Pids |->
        IF \A t \in Tags : rs[p][t].st = "none" THEN ps[p]
        ELSE [ps[p] EXCEPT !.stopped = TRUE]]

Born == {p \in Pids : procs[p].status # "unborn"}

\* Popen.poll() is None.
Alive(p) == p # None /\ procs[p].status \in {"alive", "dying"}

Exited(p) == p # None /\ procs[p].status = "exited"

\* The pid the next Popen creates.
NextPid == Cardinality(Born) + 1

RECURSIVE SumWritten(_)
SumWritten(k) ==
    IF k = 0 THEN 0
    ELSE written[k]["STDOUT"] + written[k]["STDERR"] + SumWritten(k - 1)

TotalWritten == SumWritten(MaxProcs)

\* A file name is the sequence of its characters.
DigitChars == <<"0", "1", "2", "3", "4", "5", "6", "7", "8", "9">>

IsDigit(c) == \E d \in 1..Len(DigitChars) : DigitChars[d] = c

DigitValue(c) == (CHOOSE d \in 1..Len(DigitChars) : DigitChars[d] = c) - 1

\* str(n) of a natural number, as the f-strings format it.
RECURSIVE Decimal(_)
Decimal(n) ==
    IF n < Len(DigitChars) THEN <<DigitChars[n + 1]>>
    ELSE Append(Decimal(n \div Len(DigitChars)),
                DigitChars[(n % Len(DigitChars)) + 1])

\* os.path.join(x11_socket_dir, f"X{display_num}"): the entry's name.
SocketName(n) == <<"X">> \o Decimal(n)

\* str.strip() of the blanks int() ignores around its argument.
RECURSIVE Strip(_)
Strip(cs) ==
    IF cs # <<>> /\ Head(cs) = " " THEN Strip(Tail(cs))
    ELSE IF cs # <<>> /\ cs[Len(cs)] = " " THEN Strip(SubSeq(cs, 1, Len(cs) - 1))
    ELSE cs

\* What int() takes after the sign: digits, with single underscores between them.
ValidDigits(cs) ==
    /\ cs # <<>>
    /\ \A i \in 1..Len(cs) :
           \/ IsDigit(cs[i])
           \/ /\ cs[i] = "_"
              /\ 1 < i /\ i < Len(cs)
              /\ IsDigit(cs[i - 1]) /\ IsDigit(cs[i + 1])

RECURSIVE DigitsValue(_)
DigitsValue(cs) ==
    IF cs = <<>> THEN 0
    ELSE IF cs[Len(cs)] = "_" THEN DigitsValue(SubSeq(cs, 1, Len(cs) - 1))
    ELSE Len(DigitChars) * DigitsValue(SubSeq(cs, 1, Len(cs) - 1))
             + DigitValue(cs[Len(cs)])

\* int(filename[1:]): ok is FALSE where int raises ValueError.
ParseInt(cs) ==
    LET t == Strip(cs)
        signed == t # <<>> /\ Head(t) \in {"+", "-"}
        body == IF signed THEN Tail(t) ELSE t
    IN  IF ValidDigits(body)
        THEN [ok |-> TRUE,
              val |-> IF signed /\ Head(t) = "-" THEN 0 - DigitsValue(body)
                      ELSE DigitsValue(body)]
        ELSE [ok |-> FALSE, val |-> 0]

\* used_displays: the number of every entry named "X" and something int() takes.
UsedDisplays(files) ==
    {ParseInt(Tail(f)).val :
        f \in {g \in files : g # <<>> /\ Head(g) = "X" /\ ParseInt(Tail(g)).ok}}

\* A slip: the scan takes the ceiling itself for a display number.
FindFreeDisplayUpTo(files, lo, hi) ==
    LET used == UsedDisplays(files)
        Free(n) == n \notin used /\ SocketName(n) \notin files
    IN  IF \E n \in lo..hi : Free(n)
        THEN CHOOSE n \in lo..hi : Free(n) /\ \A m \in lo..(n - 1) : ~Free(m)
        ELSE None

\* _find_free_display's scan over the directory's entries: the first number of
\* lo..hi-1 that is not in used_displays and whose socket path does not exist, or
\* None when there is none ("Could not find free X11 display"). A missing
\* directory reads as an empty one.
FindFreeDisplayIn(files, lo, hi) ==
    LET used == UsedDisplays(files)
        Free(n) == n \notin used /\ SocketName(n) \notin files
    IN  IF \E n \in lo..(hi - 1) : Free(n)
        THEN CHOOSE n \in lo..(hi - 1) :
                 Free(n) /\ \A m \in lo..(n - 1) : ~Free(m)
        ELSE None

\* A slip: with no free number the scan falls back on the first one.
FindFreeDisplayOrFirst ==
    LET d == FindFreeDisplayIn(sockets, DisplayFirst, DisplayCeiling)
    IN  IF d = None THEN DisplayFirst ELSE d

FindFreeDisplay == FindFreeDisplayIn(sockets, DisplayFirst, DisplayCeiling)

\* The directory with every number of the scanned range taken.
FullDirectory == {SocketName(n) : n \in DisplayFirst..(DisplayCeiling - 1)}


\* A slip: the recorded handle is taken for a running process.
IsRunningRecorded == process # None

\* XpraServer.is_running.
IsRunning == process # None /\ Alive(process)

\* The buffer entry of line i of process p's pipe tag: "[tag] line".
Entry(tag, p, i) == [tag |-> tag, pid |-> p, idx |-> i]

InBuffer(e) == \E k \in 1..Len(buffer) : buffer[k] = e

\* The separator "\n".join puts between two lines.
Newline == [char |-> "\n"]

\* A slip: the lines are concatenated with nothing between them.
RECURSIVE JoinBare(_)
JoinBare(lines) ==
    IF Len(lines) = 0 THEN <<>>
    ELSE <<Head(lines)>> \o JoinBare(Tail(lines))

\* "\n".join(lines)
RECURSIVE JoinLines(_)
JoinLines(lines) ==
    IF Len(lines) = 0 THEN <<>>
    ELSE IF Len(lines) = 1 THEN <<Head(lines)>>
    ELSE <<Head(lines), Newline>> \o JoinLines(Tail(lines))

\* The threads that take the lock: the foreground thread, and the reader of
\* process p's pipe tag.
ForegroundThread == 1

ThreadId(p, tag) == 2 * p + (IF tag = "STDOUT" THEN 0 ELSE 1)

\* ---------------------------------------------------------------- Init

\* The session just constructed on one of the platforms with one of the hosts
\* and ports, /tmp/.X11-unix being one of dirs.
InitAt(platforms, hosts, ports, dirs) ==
    /\ platform \in platforms
    /\ host \in hosts
    /\ port \in ports
    /\ display = None
    /\ process = None
    /\ xvfb_process = None
    /\ stop_event = FALSE
    /\ stdout_thread = None
    /\ stderr_thread = None
    /\ buffer = <<>>
    /\ lock = None
    /\ procs = [p \in Pids |-> NoProc]
    /\ written = [p \in Pids |-> [t \in Tags |-> 0]]
    /\ readers = [p \in Pids |-> [t \in Tags |-> NoReader]]
    /\ sockets \in dirs
    /\ listener = None
    /\ pc = "idle"
    /\ call = NoCall
    /\ result = "none"
    /\ clock = 0
    /\ stopLog = <<>>
    /\ peer = NoPeer
    /\ client = NoClient
    /\ testcase = NoTestCase

\* The session just constructed with the default host, /tmp/.X11-unix being one
\* of dirs.
InitWith(dirs) == InitAt(Platforms, {DefaultHost}, Ports, dirs)

\* The session just constructed on a machine with no display socket.
Init == InitWith({{}})

\* ------------------------------------------------- the operating system

\* A live process exits on its own (also: in answer to the graceful signal), and
\* its port is released. An exiting Xvfb removes the display socket it created.
ProcExit(p) ==
    /\ p \in Pids
    /\ procs[p].status = "alive"
    /\ procs' = [procs EXCEPT ![p].status = "exited"]
    /\ listener' = IF listener = p THEN None ELSE listener
    /\ sockets' = IF procs[p].bound
                  THEN sockets \ {SocketName(procs[p].disp)}
                  ELSE sockets
    /\ UNCHANGED <<peer, guiVars, sessionVars, captureVars, written, readers, pc, call, result,
                   clock, stopLog>>

\* A process that was sent the kill signal dies: it cleans nothing up.
ProcDie(p) ==
    /\ p \in Pids
    /\ procs[p].status = "dying"
    /\ procs' = [procs EXCEPT ![p].status = "exited"]
    /\ listener' = IF listener = p THEN None ELSE listener
    /\ UNCHANGED <<peer, guiVars, sessionVars, captureVars, written, readers, sockets, pc, call,
                   result, clock, stopLog>>

\* A live main process writes one complete line to stdout or stderr.
WriteLine(p, tag) ==
    /\ p \in Pids
    /\ procs[p].status = "alive"
    /\ procs[p].kind = "main"
    /\ TotalWritten < MaxLines
    /\ written' = [written EXCEPT ![p][tag] = @ + 1]
    /\ UNCHANGED <<peer, guiVars, sessionVars, captureVars, procs, readers, sockets, listener,
                   pc, call, result, clock, stopLog>>

\* The main process binds --bind-ws=host:port and listens.
MainBind(p) ==
    /\ p \in Pids
    /\ procs[p].status = "alive"
    /\ procs[p].kind = "main"
    /\ listener = None
    /\ listener' = p
    /\ UNCHANGED <<peer, guiVars, sessionVars, captureVars, procs, written, readers, sockets,
                   pc, call, result, clock, stopLog>>

\* Xvfb creates the socket file of its display.
HelperBind(p) ==
    /\ p \in Pids
    /\ procs[p].status = "alive"
    /\ procs[p].kind = "helper"
    /\ SocketName(procs[p].disp) \notin sockets
    /\ sockets' = sockets \cup {SocketName(procs[p].disp)}
    /\ procs' = [procs EXCEPT ![p].bound = TRUE]
    /\ UNCHANGED <<peer, guiVars, sessionVars, captureVars, written, readers, listener,
                   pc, call, result, clock, stopLog>>

\* ------------------------------------------------- LogCapture._read_stream

\* stream.readline(): the next line is appended under the lock; at end-of-input
\* (the process has exited and every line was read) the loop ends; with neither,
\* the thread stays blocked in the read. A reader that never takes the
\* end-of-input step is one whose pipe a grandchild still holds open.
ReaderRead(p, tag) ==
    /\ readers[p][tag].st = "read"
    /\ lock = None
    /\ IF readers[p][tag].n < written[p][tag]
       THEN /\ buffer' = Append(buffer, Entry(tag, p, readers[p][tag].n + 1))
            /\ readers' = [readers EXCEPT ![p][tag] =
                               [@ EXCEPT !.st = "check", !.n = @ + 1]]
       ELSE /\ Exited(p)
            /\ buffer' = buffer
            /\ readers' = [readers EXCEPT ![p][tag].st = "done"]
    /\ UNCHANGED <<peer, guiVars, sessionVars, stop_event, stdout_thread, stderr_thread, lock,
                   procs, written, sockets, listener, pc, call, result, clock, stopLog>>

\* `if self._stop_event.is_set(): break`, after the line was appended.
ReaderCheck(p, tag) ==
    /\ readers[p][tag].st = "check"
    /\ readers' = [readers EXCEPT ![p][tag].st =
                       IF stop_event THEN "done" ELSE "read"]
    /\ UNCHANGED <<peer, guiVars, sessionVars, captureVars, procs, written, sockets, listener,
                   pc, call, result, clock, stopLog>>

\* ------------------------------------------------------ XpraServer.start

\* A slip: the guard asks whether the main process is alive.
AlreadyRecordedLive == IsRunning

\* `if self.process:` a Popen handle is true whether or not its process lives.
AlreadyRecorded == process # None

\* `if self.platform == "Linux" and use_xvfb:`
WantsXvfb(x) == platform = "Linux" /\ x

\* subprocess.Popen can create a process.
CanSpawn == NextPid <= MaxProcs

\* A call returns r, or raises r, to the caller.
Return(r) ==
    /\ pc' = "done"
    /\ result' = r

\* The operations of LogCapture on the buffer.
BufferOps == {"clear", "get_lines", "get_output"}

\* The caller goes on: the call's result and locals are gone; what is kept is
\* which buffer operation it has just made. After the fixture's teardown the
\* session is over.
Resume ==
    /\ pc = "done"
    /\ pc' = IF call.fixture THEN "over" ELSE "idle"
    /\ result' = "none"
    /\ call' = [NoCall EXCEPT !.prev = IF call.op \in BufferOps THEN call.op
                                      ELSE "none",
                              !.quiet = call.op \in BufferOps /\ call.quiet]
    /\ clock' = 0
    /\ stopLog' = <<>>
    /\ UNCHANGED <<peer, guiVars, sessionVars, captureVars, osVars>>

\* start(app_command, extra_args=ea, use_xvfb=x) is entered.
StartEntered(x) == pc = "idle" /\ x \in BOOLEAN

StartArgs(x, ea) == [NoCall EXCEPT !.op = "start", !.xvfb = x, !.extra = ea]

\* raise RuntimeError("Server already running")
StartReject(x, ea) ==
    /\ StartEntered(x)
    /\ AlreadyRecorded
    /\ call' = StartArgs(x, ea)
    /\ Return("AlreadyRunningError")
    /\ UNCHANGED <<peer, guiVars, sessionVars, captureVars, osVars, clock, stopLog>>

\* No helper: Linux without use_xvfb, or macOS and Windows, where use_xvfb only
\* warns.
StartNative(x, ea) ==
    /\ StartEntered(x)
    /\ ~AlreadyRecorded
    /\ ~WantsXvfb(x)
    /\ call' = [StartArgs(x, ea) EXCEPT !.warned =
                    platform \in {"Darwin", "Windows"} /\ x]
    /\ pc' = "spawn"
    /\ UNCHANGED <<peer, guiVars, sessionVars, captureVars, osVars, result, clock, stopLog>>

\* The process subprocess.Popen(["Xvfb", display, ...], stdout=devnull,
\* stderr=devnull) creates.
Helper(d) == [kind |-> "helper", status |-> "alive", disp |-> d, xvfb |-> TRUE,
              bound |-> FALSE, bind |-> <<>>, pipes |-> {}, stopped |-> FALSE,
           args |-> <<>>]

\* self.display = self._find_free_display(), then _start_xvfb's
\* subprocess.Popen(["Xvfb", display, ...]) succeeds. With no free display
\* _find_free_display raises and nothing is assigned.
StartXvfb(x, ea) ==
    /\ StartEntered(x)
    /\ ~AlreadyRecorded
    /\ WantsXvfb(x)
    /\ LET d == FindFreeDisplay
       IN  IF d = None
           THEN /\ call' = StartArgs(x, ea)
                /\ Return("ResourceExhaustedError")
                /\ UNCHANGED <<display, procs>>
           ELSE /\ CanSpawn
                /\ display' = d
                /\ procs' = [procs EXCEPT ![NextPid] = Helper(d)]
                /\ call' = [StartArgs(x, ea) EXCEPT !.h = NextPid]
                /\ pc' = "xvfb_settle"
                /\ UNCHANGED result
    /\ UNCHANGED <<peer, guiVars, platform, host, port, process, xvfb_process, captureVars, written,
                   readers, sockets, listener, clock, stopLog>>

\* The display is assigned, then _start_xvfb's subprocess.Popen raises (no Xvfb
\* executable, no process slot).
StartXvfbFail(x, ea) ==
    /\ StartEntered(x)
    /\ ~AlreadyRecorded
    /\ WantsXvfb(x)
    /\ LET d == FindFreeDisplay
       IN  d # None /\ display' = d
    /\ call' = StartArgs(x, ea)
    /\ Return("OSError")
    /\ UNCHANGED <<peer, guiVars, platform, host, port, process, xvfb_process, captureVars, osVars,
                   clock, stopLog>>

\* A slip: the liveness check after the settle delay is left out.
XvfbSettleUnchecked ==
    /\ pc = "xvfb_settle"
    /\ IF call.op = "start"
       THEN /\ xvfb_process' = call.h
            /\ pc' = "spawn"
            /\ UNCHANGED result
       ELSE /\ xvfb_process' = xvfb_process
            /\ Return("handle")
    /\ UNCHANGED <<peer, guiVars, platform, host, port, display, process, captureVars, osVars, call,
                   clock, stopLog>>

\* _start_xvfb after time.sleep(0.5): `if process.poll() is not None: raise`;
\* otherwise the handle is returned: start records it (time.sleep(1) follows),
\* a caller of _start_xvfb itself gets it.
XvfbSettle ==
    /\ pc = "xvfb_settle"
    /\ IF ~Alive(call.h)
       THEN /\ xvfb_process' = xvfb_process
            /\ Return("HelperStartupError")
       ELSE IF call.op = "start"
       THEN /\ xvfb_process' = call.h
            /\ pc' = "spawn"
            /\ UNCHANGED result
       ELSE /\ xvfb_process' = xvfb_process
            /\ Return("handle")
    /\ UNCHANGED <<peer, guiVars, platform, host, port, display, process, captureVars, osVars, call,
                   clock, stopLog>>

\* A slip: attach starts the capture with an empty buffer.
AttachFresh(p) ==
    /\ stop_event' = FALSE
    /\ stdout_thread' = p
    /\ stderr_thread' = p
    /\ readers' = [readers EXCEPT ![p] = [t \in Tags |-> [NoReader EXCEPT !.st = "read"]]]
    /\ buffer' = <<>>
    /\ UNCHANGED lock

\* LogCapture.attach(process), the pipes being present: the stop signal is
\* cleared and one reader thread per pipe is created and started.
Attach(p) ==
    /\ stop_event' = FALSE
    /\ stdout_thread' = p
    /\ stderr_thread' = p
    /\ readers' = [readers EXCEPT ![p] = [t \in Tags |-> [NoReader EXCEPT !.st = "read"]]]
    /\ UNCHANGED <<buffer, lock>>

\* `if self.display: args.append(f"--display={self.display}")`
DisplayArg == display

\* One argument of a command line: the option's name and what follows its `=`.
Arg(opt, val) == [opt |-> opt, val |-> val]

\* start's app_command.
AppCommand == "xeyes"

\* extra_args=None, and the lists a caller passes: an option of its own, then
\* one that overrides a default.
NoExtra == <<>>

ExtraArgs == {NoExtra, <<Arg("--dpi", <<96>>), Arg("--speaker", <<"on">>)>>}

\* The arguments start always passes.
DefaultArgs ==
    <<Arg("xpra", <<>>), Arg("seamless", <<>>), Arg("--start", <<AppCommand>>),
      Arg("--bind-ws", <<host, port>>), Arg("--no-daemon", <<>>),
      Arg("--speaker", <<"no">>), Arg("--microphone", <<"no">>)>>

\* The argument list of the main process: the defaults, then
\* `if self.display: args.append(...)`, then
\* `if extra_args: args.extend(extra_args)`.
Args(ea) ==
    DefaultArgs
        \o (IF DisplayArg # None THEN <<Arg("--display", <<DisplayArg>>)>>
            ELSE <<>>)
        \o ea

\* subprocess.Popen(args, stdout=PIPE, stderr=PIPE) succeeds, the arguments
\* holding f"--bind-ws={self.host}:{self.port}": the handle is recorded and the
\* capture attached.
SpawnMain ==
    /\ pc = "spawn"
    /\ CanSpawn
    /\ procs' = [procs EXCEPT ![NextPid] =
                     [kind |-> "main", status |-> "alive", disp |-> DisplayArg,
                      xvfb |-> call.xvfb, bound |-> FALSE,
                      bind |-> <<host, port>>, pipes |-> Tags,
                      stopped |-> FALSE, args |-> Args(call.extra)]]
    /\ process' = NextPid
    /\ Attach(NextPid)
    /\ pc' = "probe"
    /\ clock' = 0
    /\ UNCHANGED <<peer, guiVars, platform, host, port, display, xvfb_process, written, sockets,
                   listener, call, result, stopLog>>

\* subprocess.Popen raises (no xpra executable, no process slot).
SpawnMainFail ==
    /\ pc = "spawn"
    /\ Return("OSError")
    /\ UNCHANGED <<peer, guiVars, sessionVars, captureVars, osVars, call, clock, stopLog>>

\* _wait_for_socket(timeout): start calls it with the default, a direct caller
\* with its own timeout. In ticks.
ProbeLimit ==
    IF call.op = "_wait_for_socket" THEN call.timeout * TicksPerUnit
    ELSE ProbeTimeout * TicksPerUnit

\* A slip: the loop is left after the first failed attempt.
ProbeOpenOnce == clock = 0

\* A slip: `<=` for `<` in the loop condition.
ProbeOpenInclusive == clock <= ProbeLimit

\* _wait_for_socket: `while time.time() - start < timeout`.
ProbeOpen == clock < ProbeLimit

\* A slip: the URL names the default host whatever the session's host is.
UrlDefaultHost(h, p) == <<"ws", DefaultHost, p>>

\* f"ws://{self.host}:{self.port}/"
Url(h, p) == <<"ws", h, p>>

\* s.connect_ex((self.host, self.port)) returned 0: _wait_for_socket returns,
\* and start, when it was the caller, returns the URL.
Connected ==
    IF call.op = "start"
    THEN /\ call' = [call EXCEPT !.probed = <<host, port>>, !.url = Url(host, port)]
         /\ Return("url")
    ELSE /\ call' = [call EXCEPT !.probed = <<host, port>>]
         /\ Return("ready")

\* connect_ex returns 0, the main process listening: _wait_for_socket returns
\* and start returns the URL.
ProbeConnected ==
    /\ pc = "probe"
    /\ ProbeOpen
    /\ listener # None
    /\ Connected
    /\ UNCHANGED <<peer, guiVars, sessionVars, captureVars, osVars, clock, stopLog>>

\* connect_ex returns 0 because another process of the machine listens on the
\* port (_get_free_port released it before the main process was launched).
ProbeConnectedForeign ==
    /\ pc = "probe"
    /\ ProbeOpen
    /\ listener = None
    /\ Connected
    /\ UNCHANGED <<peer, guiVars, sessionVars, captureVars, osVars, clock, stopLog>>

\* connect_ex fails after c ticks (refused, or timed out); time.sleep(0.2).
ProbeRetry(c) ==
    /\ pc = "probe"
    /\ ProbeOpen
    /\ listener = None
    /\ clock' = clock + c + 1
    /\ UNCHANGED <<peer, guiVars, sessionVars, captureVars, osVars, pc, call, result, stopLog>>

\* A slip: the timeout path forgets the main process before it raises.
ProbeExpiredForgets ==
    /\ pc = "probe"
    /\ ~ProbeOpen
    /\ process' = None
    /\ Return("ReadinessTimeoutError")
    /\ UNCHANGED <<peer, guiVars, platform, host, port, display, xvfb_process, captureVars, osVars,
                   call, clock, stopLog>>

\* raise RuntimeError("WebSocket endpoint not ready after ... seconds")
ProbeExpired ==
    /\ pc = "probe"
    /\ ~ProbeOpen
    /\ Return("ReadinessTimeoutError")
    /\ UNCHANGED <<peer, guiVars, sessionVars, captureVars, osVars, call, clock, stopLog>>

\* --------------------------------------- XpraServer's queries and helpers

\* is_running(): `self.process is not None and self.process.poll() is None`
IsRunningCall ==
    /\ pc = "idle"
    /\ call' = [NoCall EXCEPT !.op = "is_running"]
    /\ Return(IF IsRunning THEN "True" ELSE "False")
    /\ UNCHANGED <<peer, guiVars, sessionVars, captureVars, osVars, clock, stopLog>>

\* get_logs(): log_capture.get_output(), the buffer's lines joined.
GetLogsCall ==
    /\ pc = "idle"
    /\ lock = None
    /\ call' = [NoCall EXCEPT !.op = "get_logs", !.out = JoinLines(buffer)]
    /\ Return("logs")
    /\ UNCHANGED <<peer, guiVars, sessionVars, captureVars, osVars, clock, stopLog>>

\* The timeouts _wait_for_socket is called with on its own, in time units.
ProbeTimeouts == {1, ProbeTimeout}

\* How long a failed connect attempt may take, in ticks: from a refusal at once
\* to the socket's timeout.
AttemptTicks == 0..(ConnectTimeout * TicksPerUnit)

\* _wait_for_socket(timeout=t) called on its own: `start = time.time()`.
WaitForSocketCall(t) ==
    /\ pc = "idle"
    /\ call' = [NoCall EXCEPT !.op = "_wait_for_socket", !.timeout = t]
    /\ pc' = "probe"
    /\ clock' = 0
    /\ UNCHANGED <<peer, guiVars, sessionVars, captureVars, osVars, result, stopLog>>

\* _find_free_display() called on its own, as the tests do: off Linux it raises
\* an error naming the platform; on Linux it returns the display found, or raises
\* when there is none.
FindFreeDisplayCall ==
    /\ pc = "idle"
    /\ IF platform # "Linux"
       THEN /\ call' = [NoCall EXCEPT !.op = "_find_free_display",
                                      !.named = platform]
            /\ Return("UnsupportedPlatformError")
       ELSE LET d == FindFreeDisplay
            IN  /\ call' = [NoCall EXCEPT !.op = "_find_free_display", !.ret = d]
                /\ Return(IF d = None THEN "ResourceExhaustedError"
                          ELSE "display")
    /\ UNCHANGED <<peer, guiVars, sessionVars, captureVars, osVars, clock, stopLog>>

\* The displays _start_xvfb is called with on its own.
DirectDisplays == {DisplayFirst}

\* _start_xvfb(display) called on its own: off Linux it raises an error naming
\* the platform; on Linux Popen starts Xvfb (or raises), and the liveness check
\* follows the settle delay.
StartXvfbCall(d) ==
    /\ pc = "idle"
    /\ \/ /\ platform # "Linux"
          /\ call' = [NoCall EXCEPT !.op = "_start_xvfb", !.named = platform]
          /\ Return("UnsupportedPlatformError")
          /\ UNCHANGED procs
       \/ /\ platform = "Linux"
          /\ CanSpawn
          /\ procs' = [procs EXCEPT ![NextPid] = Helper(d)]
          /\ call' = [NoCall EXCEPT !.op = "_start_xvfb", !.h = NextPid]
          /\ pc' = "xvfb_settle"
          /\ UNCHANGED result
       \/ /\ platform = "Linux"
          /\ call' = [NoCall EXCEPT !.op = "_start_xvfb"]
          /\ Return("OSError")
          /\ UNCHANGED procs
    /\ UNCHANGED <<peer, guiVars, sessionVars, captureVars, written, readers, sockets, listener,
                   clock, stopLog>>

\* ------------------------------------------------------- XpraServer.stop

\* stop(timeout) is entered; LogCapture.stop: self._stop_event.set().
StopCall(t) ==
    /\ pc = "idle"
    /\ pc' = "join_stdout"
    /\ call' = [NoCall EXCEPT !.op = "stop", !.timeout = t, !.main = process,
                              !.helper = xvfb_process]
    /\ stop_event' = TRUE
    /\ procs' = Signalled(procs, readers)
    /\ UNCHANGED <<peer, guiVars, sessionVars, stdout_thread, stderr_thread, buffer, lock,
                   written, readers, sockets, listener, result, clock, stopLog>>

\* The xpra_server fixture after the test, whatever the test did with the
\* session: `if server.is_running(): server.stop()`, the stop with its default
\* timeout; with is_running() false the teardown is over at once.
FixtureTeardown ==
    /\ pc = "idle"
    /\ IF IsRunning
       THEN /\ pc' = "join_stdout"
            /\ call' = [NoCall EXCEPT !.op = "stop", !.fixture = TRUE,
                                      !.timeout = DefaultStopTimeout,
                                      !.main = process, !.helper = xvfb_process]
            /\ stop_event' = TRUE
            /\ procs' = Signalled(procs, readers)
            /\ UNCHANGED result
       ELSE /\ call' = [NoCall EXCEPT !.op = "teardown", !.fixture = TRUE]
            /\ Return("None")
            /\ UNCHANGED <<stop_event, procs>>
    /\ UNCHANGED <<peer, guiVars, sessionVars, stdout_thread, stderr_thread, buffer, lock,
                   written, readers, sockets, listener, clock, stopLog>>

\* The two processes stop unwinds, the main process first.
Whiches == {"main", "helper"}

Handle(w) == IF w = "main" THEN process ELSE xvfb_process

\* An entry of stopLog: what happened to which.
Ev(what, w) == <<what, w>>

\* A slip: terminate() is left out, and the wait starts at once.
NotTerminated(w, log) == log

\* Popen.terminate(): the graceful signal, sent unless the process has exited.
Terminated(w, log) ==
    IF Alive(Handle(w)) THEN Append(log, Ev("term", w)) ELSE log

\* `if self.process:` terminate it and wait, then `if self.xvfb_process:` the
\* same, then return. Control goes on from the main process or from the helper,
\* with log the steps completed so far.
TermFrom(w, log) ==
    IF w = "main" /\ process # None
    THEN /\ pc' = "wait_main"
         /\ stopLog' = Terminated("main", log)
         /\ UNCHANGED result
    ELSE IF xvfb_process # None
    THEN /\ pc' = "wait_helper"
         /\ stopLog' = Terminated("helper", log)
         /\ UNCHANGED result
    ELSE /\ Return("stopped")
         /\ stopLog' = log

\* The thread handle LogCapture holds for a pipe, and whether that thread is over.
ThreadOf(tag) == IF tag = "STDOUT" THEN stdout_thread ELSE stderr_thread

ThreadDone(tag) == readers[ThreadOf(tag)][tag].st = "done"

JoinPc(tag) == IF tag = "STDOUT" THEN "join_stdout" ELSE "join_stderr"

\* stdout is joined first, then stderr; then LogCapture.stop returns, and
\* XpraServer.stop, when it was the caller, terminates the processes.
AfterJoin(tag) ==
    IF tag = "STDOUT"
    THEN /\ pc' = "join_stderr"
         /\ UNCHANGED <<stopLog, result>>
    ELSE IF call.op = "capture_stop"
    THEN /\ Return("stopped")
         /\ UNCHANGED stopLog
    ELSE TermFrom("main", Append(stopLog, Ev("stopped", "capture")))

\* `if self.stdout_thread:` with no thread recorded: nothing to join.
JoinSkip(tag) ==
    /\ pc = JoinPc(tag)
    /\ ThreadOf(tag) = None
    /\ AfterJoin(tag)
    /\ UNCHANGED <<peer, guiVars, sessionVars, captureVars, osVars, call, clock>>

\* thread.join(timeout=2) returns because the thread is over, after d ticks.
JoinReturn(tag, d) ==
    /\ pc = JoinPc(tag)
    /\ ThreadOf(tag) # None
    /\ ThreadDone(tag)
    /\ clock' = clock + d
    /\ AfterJoin(tag)
    /\ UNCHANGED <<peer, guiVars, sessionVars, captureVars, osVars, call>>

\* A slip: thread.join() with no timeout, which returns only once the thread is
\* over.
JoinUnbounded(tag) ==
    /\ pc = JoinPc(tag)
    /\ ThreadOf(tag) # None
    /\ ThreadDone(tag)
    /\ clock' = clock
    /\ AfterJoin(tag)
    /\ UNCHANGED <<peer, guiVars, sessionVars, captureVars, osVars, call>>

\* thread.join(timeout=2) returns at the timeout: the thread is still running, and
\* is left behind.
JoinExpired(tag) ==
    /\ pc = JoinPc(tag)
    /\ ThreadOf(tag) # None
    /\ ~ThreadDone(tag)
    /\ clock' = clock + JoinGrace * TicksPerUnit
    /\ AfterJoin(tag)
    /\ UNCHANGED <<peer, guiVars, sessionVars, captureVars, osVars, call>>

WaitPc(w) == IF w = "main" THEN "wait_main" ELSE "wait_helper"

ReapPc(w) == IF w = "main" THEN "reap_main" ELSE "reap_helper"

\* A slip: the timeout argument is ignored, the default being waited for.
WaitLimitDefault(w) ==
    IF w = "main" THEN DefaultStopTimeout * TicksPerUnit
    ELSE XvfbStopTimeout * TicksPerUnit

\* wait(timeout=timeout) for the main process, wait(timeout=5) for the helper.
WaitLimit(w) ==
    IF w = "main" THEN call.timeout * TicksPerUnit
    ELSE XvfbStopTimeout * TicksPerUnit

\* A slip: `self.xvfb_process = None` is left out.
ClearedMainOnly(w) ==
    IF w = "main"
    THEN /\ process' = None
         /\ UNCHANGED xvfb_process
         /\ TermFrom("helper", Append(stopLog, Ev("cleared", "main")))
    ELSE /\ UNCHANGED <<process, xvfb_process>>
         /\ stopLog' = Append(stopLog, Ev("cleared", "helper"))
         /\ Return("stopped")

\* `self.process = None`, and on to the helper; `self.xvfb_process = None`, and
\* stop returns.
Cleared(w) ==
    IF w = "main"
    THEN /\ process' = None
         /\ UNCHANGED xvfb_process
         /\ TermFrom("helper", Append(stopLog, Ev("cleared", "main")))
    ELSE /\ xvfb_process' = None
         /\ UNCHANGED process
         /\ stopLog' = Append(stopLog, Ev("cleared", "helper"))
         /\ Return("stopped")

\* Popen.wait(timeout) returns: the process has exited, d ticks into the wait.
WaitReturn(w, d) ==
    /\ pc = WaitPc(w)
    /\ Exited(Handle(w))
    /\ clock' = clock + d
    /\ Cleared(w)
    /\ UNCHANGED <<peer, guiVars, platform, host, port, display, captureVars, osVars, call>>

\* Popen.wait(timeout) raises TimeoutExpired, the process being still alive, and
\* the handler calls Popen.kill().
WaitExpired(w) ==
    /\ pc = WaitPc(w)
    /\ Alive(Handle(w))
    /\ clock' = clock + WaitLimit(w)
    /\ procs' = [procs EXCEPT ![Handle(w)].status = "dying"]
    /\ stopLog' = stopLog \o <<Ev("expired", w), Ev("kill", w)>>
    /\ pc' = ReapPc(w)
    /\ UNCHANGED <<peer, guiVars, sessionVars, captureVars, written, readers, sockets, listener,
                   call, result>>

\* A slip: kill() is not followed by wait().
ReapNoWait(w) ==
    /\ pc = ReapPc(w)
    /\ Cleared(w)
    /\ UNCHANGED <<peer, guiVars, platform, host, port, display, captureVars, osVars, call, clock>>

\* The unbounded Popen.wait() after kill returns: the process has exited.
Reap(w) ==
    /\ pc = ReapPc(w)
    /\ Exited(Handle(w))
    /\ Cleared(w)
    /\ UNCHANGED <<peer, guiVars, platform, host, port, display, captureVars, osVars, call, clock>>

\* ------------------------------------------- LogCapture used on its own

\* A child process the caller created with subprocess.Popen, with PIPE given
\* for the streams of pipes.
ChildProc(pipes) == [kind |-> "child", status |-> "alive", disp |-> None,
                     xvfb |-> FALSE, bound |-> FALSE, bind |-> <<>>,
                     pipes |-> pipes, stopped |-> FALSE, args |-> <<>>]

\* `process.stdout is None or process.stderr is None` is false.
HasBothPipes(p) == procs[p].pipes = Tags

\* The lines in a child's pipes when the capture is constructed: the first
\* child has MaxPiped lines in stdout and one fewer in stderr, the others have
\* written nothing.
PipedLines(p, tag) ==
    IF p # 1 THEN 0
    ELSE IF tag = "STDOUT" THEN MaxPiped
    ELSE MaxPiped - 1

\* A slip: the stop signal is cleared before the streams are looked at.
AttachRejected ==
    /\ stop_event' = FALSE
    /\ UNCHANGED <<stdout_thread, stderr_thread, buffer, lock, readers>>

\* `if process.stdout is None or process.stderr is None: raise ValueError`
AttachRefused == UNCHANGED <<captureVars, readers>>

\* LogCapture.attach(process) called by the caller on a child no reader was yet
\* started for.
AttachCall(p) ==
    /\ pc = "idle"
    /\ p \in Pids
    /\ procs[p].status # "unborn"
    /\ \A t \in Tags : readers[p][t].st = "none"
    /\ call' = [NoCall EXCEPT !.op = "attach", !.h = p]
    /\ IF HasBothPipes(p)
       THEN /\ Attach(p)
            /\ Return("None")
       ELSE /\ AttachRefused
            /\ Return("InvalidProcessError")
    /\ UNCHANGED <<peer, guiVars, sessionVars, procs, written, sockets, listener, clock,
                   stopLog>>

\* LogCapture.stop() called by the caller: self._stop_event.set(), then the
\* joins.
CaptureStopCall ==
    /\ pc = "idle"
    /\ pc' = "join_stdout"
    /\ call' = [NoCall EXCEPT !.op = "capture_stop"]
    /\ stop_event' = TRUE
    /\ procs' = Signalled(procs, readers)
    /\ UNCHANGED <<peer, guiVars, sessionVars, stdout_thread, stderr_thread, buffer, lock,
                   written, readers, sockets, listener, result, clock, stopLog>>

\* No reader thread is running: none was started, or each has terminated.
ReadersQuiet == \A p \in Pids : \A t \in Tags : readers[p][t].st \in {"none", "done"}

\* clear(), get_lines() or get_output() is entered: `with self._lock:` is next.
\* The call keeps what the caller did just before; a call that follows none
\* notes whether readers are running.
BufferCall(op) ==
    /\ pc = "idle"
    /\ op \in BufferOps
    /\ call' = [NoCall EXCEPT !.op = op, !.prev = call.prev,
                              !.quiet = IF call.prev = "none" THEN ReadersQuiet
                                        ELSE call.quiet]
    /\ pc' = "acquire"
    /\ UNCHANGED <<peer, guiVars, sessionVars, captureVars, osVars, result, clock, stopLog>>

\* `with self._lock:` the foreground thread takes the lock once it is free.
BufferAcquire ==
    /\ pc = "acquire"
    /\ lock = None
    /\ lock' = ForegroundThread
    /\ pc' = "locked"
    /\ UNCHANGED <<peer, guiVars, sessionVars, stop_event, stdout_thread, stderr_thread,
                   buffer, osVars, call, result, clock, stopLog>>

\* A slip: clear leaves the buffer as it is.
BufferKept(op, lines) == lines

\* The buffer an operation leaves: self.buffer.clear() empties it.
BufferAfter(op, lines) == IF op = "clear" THEN <<>> ELSE lines

\* Under the lock: self.buffer.clear(), list(self.buffer) or
\* "\n".join(self.buffer); the lock is released as the block is left.
BufferDo ==
    /\ pc = "locked"
    /\ lock' = None
    /\ IF call.op = "clear"
       THEN /\ buffer' = BufferAfter(call.op, buffer)
            /\ UNCHANGED call
            /\ Return("None")
       ELSE IF call.op = "get_lines"
       THEN /\ call' = [call EXCEPT !.out = buffer]
            /\ UNCHANGED buffer
            /\ Return("lines")
       ELSE /\ call' = [call EXCEPT !.out = JoinLines(buffer)]
            /\ UNCHANGED buffer
            /\ Return("output")
    /\ UNCHANGED <<peer, guiVars, sessionVars, stop_event, stdout_thread, stderr_thread,
                   osVars, clock, stopLog>>

\* _read_stream with the lock's acquisition and release as steps of their own.
\* stream.readline() returns the next line of the pipe, or "" at end-of-input
\* (the loop ends); with neither, the thread stays blocked in the read, holding
\* nothing.
ReaderReadline(p, tag) ==
    /\ readers[p][tag].st = "read"
    /\ IF readers[p][tag].n < written[p][tag]
       THEN readers' = [readers EXCEPT ![p][tag] =
                            [@ EXCEPT !.st = "got", !.n = @ + 1]]
       ELSE /\ Exited(p)
            /\ readers' = [readers EXCEPT ![p][tag].st = "done"]
    /\ UNCHANGED <<peer, guiVars, sessionVars, captureVars, procs, written, sockets, listener,
                   pc, call, result, clock, stopLog>>

\* A slip: a reader whose read fails stops the whole capture.
ReaderFailStopsAll(p, tag) ==
    /\ readers[p][tag].st = "read"
    /\ readers[p][tag].n < written[p][tag]
    /\ readers' = [q \in Pids |-> [u \in Tags |->
                       IF readers[q][u].st = "read" \/ (q = p /\ u = tag)
                       THEN [readers[q][u] EXCEPT !.st = "done"]
                       ELSE readers[q][u]]]
    /\ UNCHANGED <<peer, guiVars, sessionVars, captureVars, procs, written, sockets, listener,
                   pc, call, result, clock, stopLog>>

\* stream.readline() raises, the bytes of the next line not decoding: the
\* exception ends the thread, and the line is gone.
ReaderFail(p, tag) ==
    /\ readers[p][tag].st = "read"
    /\ readers[p][tag].n < written[p][tag]
    /\ readers' = [readers EXCEPT ![p][tag] = [@ EXCEPT !.st = "done", !.n = @ + 1]]
    /\ UNCHANGED <<peer, guiVars, sessionVars, captureVars, procs, written, sockets, listener,
                   pc, call, result, clock, stopLog>>

\* `with self._lock:` the reader takes the lock once it is free.
ReaderAcquire(p, tag) ==
    /\ readers[p][tag].st = "got"
    /\ lock = None
    /\ lock' = ThreadId(p, tag)
    /\ readers' = [readers EXCEPT ![p][tag].st = "locked"]
    /\ UNCHANGED <<peer, guiVars, sessionVars, stop_event, stdout_thread, stderr_thread,
                   buffer, procs, written, sockets, listener, pc, call, result,
                   clock, stopLog>>

\* A slip: the lock is kept over the next readline.
ReaderAppendHolding(p, tag) ==
    /\ readers[p][tag].st = "locked"
    /\ buffer' = Append(buffer, Entry(tag, p, readers[p][tag].n))
    /\ readers' = [readers EXCEPT ![p][tag].st = "check"]
    /\ UNCHANGED <<peer, guiVars, sessionVars, stop_event, stdout_thread, stderr_thread, lock,
                   procs, written, sockets, listener, pc, call, result, clock,
                   stopLog>>

\* self.buffer.append(f"[{prefix}] {decoded}"), and the lock is released.
ReaderAppend(p, tag) ==
    /\ readers[p][tag].st = "locked"
    /\ buffer' = Append(buffer, Entry(tag, p, readers[p][tag].n))
    /\ lock' = None
    /\ readers' = [readers EXCEPT ![p][tag].st = "check"]
    /\ UNCHANGED <<peer, guiVars, sessionVars, stop_event, stdout_thread, stderr_thread,
                   procs, written, sockets, listener, pc, call, result, clock,
                   stopLog>>

\* ------------------------------------------------------ a second session

\* The ports no process listens on. _get_free_port's own socket is closed when
\* its `with` block ends, before the port is returned: the port of a session
\* whose main process is not listening is among them.
FreePorts == {q \in EphemeralPorts : listener = None \/ q # port}

\* XpraServer() is constructed a second time: _get_free_port binds port 0, reads
\* the port the operating system chose, and closes the socket.
PeerConstruct(q) ==
    /\ peer.pc = "none"
    /\ q \in FreePorts
    /\ peer' = [peer EXCEPT !.pc = "idle", !.port = q]
    /\ UNCHANGED <<guiVars, sessionVars, captureVars, osVars, pc, call, result, clock,
                   stopLog>>

\* The second session's start on Linux with the helper asked for, up to the
\* launch of Xvfb: the display is scanned for and recorded, and Xvfb launched.
PeerStartXvfb ==
    /\ peer.pc = "idle"
    /\ peer.xvfb_process = None
    /\ platform = "Linux"
    /\ LET d == FindFreeDisplay
       IN  IF d = None
           THEN UNCHANGED <<peer, guiVars, procs>>
           ELSE /\ CanSpawn
                /\ procs' = [procs EXCEPT ![NextPid] = Helper(d)]
                /\ peer' = [peer EXCEPT !.pc = "xvfb_settle", !.display = d,
                                        !.h = NextPid]
    /\ UNCHANGED <<guiVars, sessionVars, captureVars, written, readers, sockets, listener,
                   pc, call, result, clock, stopLog>>

\* The second session's time.sleep(0.5) is over and poll() is read: a live Xvfb
\* is recorded; with an exited one, and also after a recorded one when the main
\* process cannot be launched, its start raises.
PeerXvfbSettle ==
    /\ peer.pc = "xvfb_settle"
    /\ peer' = IF Alive(peer.h)
               THEN [peer EXCEPT !.pc = "idle", !.xvfb_process = peer.h, !.h = None]
               ELSE [peer EXCEPT !.pc = "idle", !.h = None]
    /\ UNCHANGED <<guiVars, sessionVars, captureVars, osVars, pc, call, result, clock,
                   stopLog>>

\* ------------------------------------------------------- specification

\* The caller invokes an operation, or goes on after one.
Caller ==
    \/ \E x \in BOOLEAN : StartReject(x, NoExtra)
    \/ \E x \in BOOLEAN : StartNative(x, NoExtra)
    \/ \E x \in BOOLEAN : StartXvfb(x, NoExtra)
    \/ \E x \in BOOLEAN : StartXvfbFail(x, NoExtra)
    \/ \E t \in StopTimeouts : StopCall(t)
    \/ IsRunningCall
    \/ GetLogsCall
    \/ Resume

\* The steps of the foreground thread inside a call.
Foreground ==
    \/ XvfbSettle
    \/ SpawnMain
    \/ SpawnMainFail
    \/ ProbeConnected
    \/ ProbeConnectedForeign
    \/ \E c \in ConnectTicks : ProbeRetry(c)
    \/ ProbeExpired
    \/ \E tag \in Tags : JoinSkip(tag)
    \/ \E tag \in Tags : \E d \in WaitTicks(JoinGrace * TicksPerUnit) :
           JoinReturn(tag, d)
    \/ \E tag \in Tags : JoinExpired(tag)
    \/ \E w \in Whiches : \E d \in WaitTicks(WaitLimit(w)) : WaitReturn(w, d)
    \/ \E w \in Whiches : WaitExpired(w)
    \/ \E w \in Whiches : Reap(w)

\* The reader threads.
Readers ==
    \/ \E p \in Pids : \E tag \in Tags : ReaderRead(p, tag)
    \/ \E p \in Pids : \E tag \in Tags : ReaderCheck(p, tag)

\* The operating system and the child processes.
Environment ==
    \/ \E p \in Pids : ProcExit(p)
    \/ \E p \in Pids : ProcDie(p)
    \/ \E p \in Pids : \E tag \in Tags : WriteLine(p, tag)
    \/ \E p \in Pids : MainBind(p)
    \/ \E p \in Pids : HelperBind(p)

Next == Caller \/ Foreground \/ Readers \/ Environment

Spec == Init /\ [][Next]_vars

\* The session on Linux, its caller also using the capture's buffer through
\* server.log_capture: clear(), get_lines(), get_output().
NextBuffer ==
    \/ Next
    \/ \E op \in BufferOps : BufferCall(op)
    \/ BufferAcquire
    \/ BufferDo

InitBuffer == InitAt({"Linux"}, {DefaultHost}, Ports, {{}})

SpecBuffer == InitBuffer /\ [][NextBuffer]_vars

\* ------------------------------------------------------ PlaywrightClient

\* A handle that is set: the object sync_playwright().start(), launch() or
\* new_page() returned.
Instance == 1

\* PlaywrightClient(ws_url, headless=hl), ws_url being the session's URL.
ClientConstruct(hl) ==
    /\ pc = "idle"
    /\ client = NoClient
    /\ client' = [NoClient EXCEPT !.ws_url = Url(host, port), !.headless = hl]
    /\ UNCHANGED <<peer, testcase, sessionVars, captureVars, osVars, pc, call, result,
                   clock, stopLog>>

Constructed == client.ws_url # <<>>

\* f"http://{self.ws_url.replace('ws://', '')}?connect={self.ws_url}"
PageUrl(u) == <<"http">> \o Tail(u) \o <<"?connect=">> \o u

\* What a step of the client leaves alone.
ClientFrame == UNCHANGED <<peer, testcase, sessionVars, captureVars, osVars, clock, stopLog>>

\* connect() is entered: `if self._connected: raise RuntimeError("Already
\* connected")`.
ConnectCall ==
    /\ pc = "idle"
    /\ Constructed
    /\ call' = [NoCall EXCEPT !.op = "connect"]
    /\ IF client.connected
       THEN Return("AlreadyConnectedError")
       ELSE pc' = "import" /\ UNCHANGED result
    /\ UNCHANGED client
    /\ ClientFrame

\* `from playwright.sync_api import sync_playwright`: ImportError when
\* playwright is not installed.
ConnectImport(ok) ==
    /\ pc = "import"
    /\ IF ok THEN pc' = "start" /\ UNCHANGED result
       ELSE Return("ImportError")
    /\ UNCHANGED <<client, call>>
    /\ ClientFrame

\* self.playwright = sync_playwright().start(), or the call raises and nothing
\* is assigned.
ConnectStart(ok) ==
    /\ pc = "start"
    /\ IF ok
       THEN /\ client' = [client EXCEPT !.playwright = Instance]
            /\ pc' = "launch"
            /\ UNCHANGED result
       ELSE /\ UNCHANGED client
            /\ Return("PlaywrightError")
    /\ UNCHANGED call
    /\ ClientFrame

\* self.browser = self.playwright.chromium.launch(headless=self.headless), or
\* the launch raises (no browser installed).
ConnectLaunch(ok) ==
    /\ pc = "launch"
    /\ IF ok
       THEN /\ client' = [client EXCEPT !.browser = Instance]
            /\ pc' = "new_page"
            /\ UNCHANGED result
       ELSE /\ UNCHANGED client
            /\ Return("PlaywrightError")
    /\ UNCHANGED call
    /\ ClientFrame

\* self.page = self.browser.new_page(), or the call raises.
ConnectNewPage(ok) ==
    /\ pc = "new_page"
    /\ IF ok
       THEN /\ client' = [client EXCEPT !.page = Instance]
            /\ pc' = "goto"
            /\ UNCHANGED result
       ELSE /\ UNCHANGED client
            /\ Return("PlaywrightError")
    /\ UNCHANGED call
    /\ ClientFrame

\* self.page.goto(url), or the navigation raises (nothing serves the address).
ConnectGoto(ok) ==
    /\ pc = "goto"
    /\ call' = [call EXCEPT !.url = PageUrl(client.ws_url)]
    /\ IF ok THEN pc' = "canvas" /\ UNCHANGED result
       ELSE Return("PlaywrightError")
    /\ UNCHANGED client
    /\ ClientFrame

\* self._wait_for_canvas(): a canvas is found and `self._connected = True`, or
\* no selector matches and RuntimeError("Xpra canvas not found ...") is raised.
ConnectCanvas(ok) ==
    /\ pc = "canvas"
    /\ IF ok
       THEN /\ client' = [client EXCEPT !.connected = TRUE]
            /\ Return("None")
       ELSE /\ UNCHANGED client
            /\ Return("CanvasNotFoundError")
    /\ UNCHANGED call
    /\ ClientFrame

\* disconnect(): the browser is closed and the playwright instance stopped if
\* set, and every field is reset.
Disconnected(c) ==
    [c EXCEPT !.browser = None, !.playwright = None, !.page = None,
              !.connected = FALSE]

DisconnectCall ==
    /\ pc = "idle"
    /\ Constructed
    /\ call' = [NoCall EXCEPT !.op = "disconnect"]
    /\ client' = Disconnected(client)
    /\ Return("None")
    /\ ClientFrame

\* The operations on the page.
PageOps == {"screenshot", "click", "click_canvas_at", "wait_for_element",
            "wait_for_canvas", "get_canvas_size", "execute_script"}

\* `if not self._connected or not self.page:`
NotConnected == ~client.connected \/ client.page = None

\* A page operation: RuntimeError("Not connected") under the guard; otherwise
\* the page is used, which succeeds or raises playwright's own error.
PageCall(op, ok) ==
    /\ pc = "idle"
    /\ Constructed
    /\ op \in PageOps
    /\ call' = [NoCall EXCEPT !.op = op]
    /\ IF NotConnected THEN Return("NotConnectedError")
       ELSE IF ok THEN Return("None")
       ELSE Return("PlaywrightError")
    /\ UNCHANGED client
    /\ ClientFrame

\* is_connected(): return self._connected
IsConnectedCall ==
    /\ pc = "idle"
    /\ Constructed
    /\ call' = [NoCall EXCEPT !.op = "is_connected"]
    /\ Return(IF client.connected THEN "True" ELSE "False")
    /\ UNCHANGED client
    /\ ClientFrame

\* The client used on its own, with a URL of any host and port.
NextClient ==
    \/ \E hl \in BOOLEAN : ClientConstruct(hl)
    \/ ConnectCall
    \/ \E ok \in BOOLEAN : ConnectImport(ok)
    \/ \E ok \in BOOLEAN : ConnectStart(ok)
    \/ \E ok \in BOOLEAN : ConnectLaunch(ok)
    \/ \E ok \in BOOLEAN : ConnectNewPage(ok)
    \/ \E ok \in BOOLEAN : ConnectGoto(ok)
    \/ \E ok \in BOOLEAN : ConnectCanvas(ok)
    \/ DisconnectCall
    \/ \E op \in PageOps : \E ok \in BOOLEAN : PageCall(op, ok)
    \/ IsConnectedCall
    \/ Resume

InitClient == InitAt({"Linux"}, Hosts, EphemeralPorts, {{}})

SpecClient == InitClient /\ [][NextClient]_vars

\* ------------------------------------------------------- XpraGUITestCase

\* self.server or self.client, when set: the object.
Recorded == 1

\* A slip: the guard asks whether the recorded server is running.
ServerRecordedRunning == testcase.server # None /\ IsRunning

\* `if self.server:`
ServerRecorded == testcase.server # None

\* setUp: self.server = None; self.client = None, and the test method begins.
SetUp ==
    /\ testcase.phase = "none"
    /\ pc = "idle"
    /\ testcase' = [server |-> None, client |-> None, phase |-> "test"]
    /\ UNCHANGED <<peer, client, sessionVars, captureVars, osVars, pc, call, result,
                   clock, stopLog>>

\* The reader threads of a session nobody holds any more go on in a capture
\* nobody reads: they are left out from here on.
Detached(rs) ==
    [p \in Pids |-> [t \in Tags |->
        IF rs[p][t].st = "none" THEN rs[p][t] ELSE [rs[p][t] EXCEPT !.st = "done"]]]

\* XpraServer(): a session with a port of its own, no display, no handle and
\* an empty capture, on the same machine.
ServerConstructed ==
    /\ port' \in FreePorts
    /\ host' = DefaultHost
    /\ display' = None
    /\ process' = None
    /\ xvfb_process' = None
    /\ stop_event' = FALSE
    /\ stdout_thread' = None
    /\ stderr_thread' = None
    /\ buffer' = <<>>
    /\ lock' = None
    /\ readers' = Detached(readers)
    /\ UNCHANGED platform

\* start_gui is entered: `if self.server: raise RuntimeError("Server already
\* running")`; otherwise self.server = XpraServer(), and self.server.start is
\* next.
StartGuiCall ==
    /\ testcase.phase = "test"
    /\ pc = "idle"
    /\ call' = [NoCall EXCEPT !.op = "start_gui"]
    /\ IF ServerRecorded
       THEN /\ Return("ServerAlreadyRunningError")
            /\ UNCHANGED <<testcase, sessionVars, captureVars, readers>>
       ELSE /\ testcase' = [testcase EXCEPT !.server = Recorded,
                                            !.phase = "start_gui"]
            /\ ServerConstructed
            /\ UNCHANGED <<pc, result>>
    /\ UNCHANGED <<peer, client, procs, written, sockets, listener, clock, stopLog>>

\* self.server.start(...) has returned the URL: self.client =
\* PlaywrightClient(ws_url, headless=hl), and self.client.connect() is entered.
StartGuiConnect(hl) ==
    /\ testcase.phase = "start_gui"
    /\ pc = "done"
    /\ call.op = "start"
    /\ result = "url"
    /\ testcase' = [testcase EXCEPT !.client = Recorded]
    /\ client' = [NoClient EXCEPT !.ws_url = call.url, !.headless = hl]
    /\ call' = [NoCall EXCEPT !.op = "connect"]
    /\ pc' = "import"
    /\ result' = "none"
    /\ clock' = 0
    /\ stopLog' = <<>>
    /\ UNCHANGED <<peer, sessionVars, captureVars, osVars>>

\* start_gui is left: self.server.start raised, or self.client.connect()
\* raised or returned; the test method goes on, or ends with the exception.
StartGuiReturn ==
    /\ testcase.phase = "start_gui"
    /\ pc = "done"
    /\ call.op = "connect" \/ (call.op = "start" /\ result # "url")
    /\ testcase' = [testcase EXCEPT !.phase = "test"]
    /\ pc' = "idle"
    /\ result' = "none"
    /\ call' = NoCall
    /\ clock' = 0
    /\ stopLog' = <<>>
    /\ UNCHANGED <<peer, client, sessionVars, captureVars, osVars>>

\* The test method itself: self.server = None; self.client = None.
TestForgets ==
    /\ testcase.phase = "test"
    /\ pc = "idle"
    /\ testcase' = [testcase EXCEPT !.server = None, !.client = None]
    /\ UNCHANGED <<peer, client, sessionVars, captureVars, osVars, pc, call, result,
                   clock, stopLog>>

\* tearDown begins, the test method being over: `if self.client:` its
\* disconnect() inside try/except, and self.client = None.
TearDownClient ==
    /\ testcase.phase = "test"
    /\ pc = "idle"
    /\ client' = IF testcase.client # None THEN Disconnected(client) ELSE client
    /\ testcase' = [testcase EXCEPT !.client = None, !.phase = "teardown"]
    /\ UNCHANGED <<peer, sessionVars, captureVars, osVars, pc, call, result, clock,
                   stopLog>>

\* tearDown ends: `if self.server:` its stop() has returned; self.server = None.
TearDownServer ==
    /\ testcase.phase = "teardown"
    /\ \/ pc = "idle" /\ ~ServerRecorded
       \/ pc = "done" /\ call.op = "stop"
    /\ testcase' = [testcase EXCEPT !.server = None, !.phase = "over"]
    /\ pc' = "over"
    /\ UNCHANGED <<peer, client, sessionVars, captureVars, osVars, call, result, clock,
                   stopLog>>

\* start_gui's headless argument: its default.
StartGuiHeadless == {TRUE}

\* What the test method and the framework around it do.
TestCaseSteps ==
    \/ SetUp
    \/ StartGuiCall
    \/ testcase.phase = "start_gui" /\ \E x \in BOOLEAN : StartNative(x, NoExtra)
    \/ testcase.phase = "start_gui" /\ \E x \in BOOLEAN : StartXvfb(x, NoExtra)
    \/ testcase.phase = "start_gui" /\ \E x \in BOOLEAN : StartXvfbFail(x, NoExtra)
    \/ \E hl \in StartGuiHeadless : StartGuiConnect(hl)
    \/ StartGuiReturn
    \/ testcase.phase = "test" /\ testcase.client # None /\ DisconnectCall
    \/ testcase.phase = "test" /\ ServerRecorded /\ \E t \in StopTimeouts : StopCall(t)
    \/ testcase.phase = "test" /\ Resume
    \/ TestForgets
    \/ TearDownClient
    \/ testcase.phase = "teardown" /\ pc = "idle" /\ ServerRecorded
          /\ StopCall(DefaultStopTimeout)
    \/ TearDownServer

\* The steps of connect().
ConnectSteps ==
    \/ \E ok \in BOOLEAN : ConnectImport(ok)
    \/ \E ok \in BOOLEAN : ConnectStart(ok)
    \/ \E ok \in BOOLEAN : ConnectLaunch(ok)
    \/ \E ok \in BOOLEAN : ConnectNewPage(ok)
    \/ \E ok \in BOOLEAN : ConnectGoto(ok)
    \/ \E ok \in BOOLEAN : ConnectCanvas(ok)

NextTestCase == TestCaseSteps \/ ConnectSteps \/ Foreground \/ Readers \/ Environment

\* One test of an XpraGUITestCase on Linux, from before setUp.
InitTestCase == InitAt({"Linux"}, {DefaultHost}, Ports, {{}})

SpecTestCase == InitTestCase /\ [][NextTestCase]_vars

\* The caller passes extra arguments to start.
CallerArgs ==
    \/ \E x \in BOOLEAN : \E ea \in ExtraArgs : StartReject(x, ea)
    \/ \E x \in BOOLEAN : \E ea \in ExtraArgs : StartNative(x, ea)
    \/ \E x \in BOOLEAN : \E ea \in ExtraArgs : StartXvfb(x, ea)
    \/ \E x \in BOOLEAN : \E ea \in ExtraArgs : StartXvfbFail(x, ea)
    \/ \E t \in StopTimeouts : StopCall(t)
    \/ Resume

\* A test that uses the xpra_server fixture: the session on Linux, used in any
\* way, and the teardown after it.
InitFixture == InitAt({"Linux"}, {DefaultHost}, Ports, {{}})

NextFixture == Next \/ FixtureTeardown

SpecFixture == InitFixture /\ [][NextFixture]_vars

NextArgs == CallerArgs \/ Foreground \/ Readers \/ Environment

\* The session just constructed on Linux, where start launches a helper when
\* asked to, or on macOS, where it never does.
InitArgs == InitAt({"Linux", "Darwin"}, {DefaultHost}, Ports, {{}})

SpecArgs == InitArgs /\ [][NextArgs]_vars

\* Entries /tmp/.X11-unix may hold: the socket of a display below the scanned
\* range, the sockets of the first displays of the range, a second name that
\* int() reads as the first display, a name int() rejects, and a name that does
\* not start with "X".
ScanCandidates ==
    {SocketName(DisplayFirst - 1)}
        \cup {SocketName(n) : n \in DisplayFirst..(DisplayFirst + MaxSockets - 1)}
        \cup {<<"X", "0">> \o Decimal(DisplayFirst), <<"X", "a">>, <<"l", "o", "c", "k">>}

\* The directories scanned: every choice of those entries, the sockets of the
\* six displays 100..105, every number of the range taken, and every number
\* but the last.
ScanDirectories ==
    (SUBSET ScanCandidates)
        \cup {{SocketName(n) : n \in DisplayFirst..(DisplayFirst + 5)},
              FullDirectory,
              FullDirectory \ {SocketName(DisplayCeiling - 1)}}

\* _find_free_display called on its own, whatever the directory holds.
InitScan == InitWith(ScanDirectories)

NextScan == FindFreeDisplayCall \/ Resume

SpecScan == InitScan /\ [][NextScan]_vars

\* A machine without the xpra executable, subprocess.Popen(["xpra", ...]) always
\* raising, whose /tmp/.X11-unix is empty or has every number of the range
\* taken; _find_free_display and _start_xvfb are also called on their own.
InitNoMain == InitWith({{}, FullDirectory})

NextNoMain ==
    \/ \E x \in BOOLEAN : StartNative(x, NoExtra)
    \/ \E x \in BOOLEAN : StartXvfb(x, NoExtra)
    \/ \E x \in BOOLEAN : StartXvfbFail(x, NoExtra)
    \/ FindFreeDisplayCall
    \/ \E d \in DirectDisplays : StartXvfbCall(d)
    \/ \E t \in StopTimeouts : StopCall(t)
    \/ Resume
    \/ XvfbSettle
    \/ SpawnMainFail
    \/ \E tag \in Tags : JoinSkip(tag)
    \/ \E d \in WaitTicks(WaitLimit("helper")) : WaitReturn("helper", d)
    \/ WaitExpired("helper")
    \/ Reap("helper")
    \/ \E p \in Pids : ProcExit(p)
    \/ \E p \in Pids : ProcDie(p)
    \/ \E p \in Pids : HelperBind(p)

SpecNoMain == InitNoMain /\ [][NextNoMain]_vars

\* The session constructed on Linux with either host and, supplied or
\* auto-allocated, either port.
InitEndpoint == InitAt({"Linux"}, Hosts, EphemeralPorts, {{}})

SpecEndpoint == InitEndpoint /\ [][Next]_vars

\* The readiness probe called on its own for an endpoint that never opens: no
\* process of the machine ever listens on (host, port).
NextProbe ==
    \/ \E t \in ProbeTimeouts : WaitForSocketCall(t)
    \/ \E c \in AttemptTicks : ProbeRetry(c)
    \/ ProbeExpired
    \/ Resume

SpecProbe == Init /\ [][NextProbe]_vars

\* A LogCapture used on its own: the caller holds child processes, the first
\* with both streams piped, each other with any of them, and lines[p][tag] lines
\* are in the pipes.
InitCaptureWith(lines) ==
    /\ platform = "Linux"
    /\ host = DefaultHost
    /\ port \in Ports
    /\ display = None
    /\ process = None
    /\ xvfb_process = None
    /\ stop_event = FALSE
    /\ stdout_thread = None
    /\ stderr_thread = None
    /\ buffer = <<>>
    /\ lock = None
    /\ \E pipes \in [Pids -> SUBSET Tags] :
           /\ pipes[1] = Tags
           /\ procs = [p \in Pids |-> ChildProc(pipes[p])]
           /\ written = [p \in Pids |-> [t \in Tags |->
                             IF t \in pipes[p] THEN lines[p][t] ELSE 0]]
    /\ readers = [p \in Pids |-> [t \in Tags |-> NoReader]]
    /\ sockets = {}
    /\ listener = None
    /\ pc = "idle"
    /\ call = NoCall
    /\ result = "none"
    /\ clock = 0
    /\ stopLog = <<>>
    /\ peer = NoPeer
    /\ client = NoClient
    /\ testcase = NoTestCase

InitCapture == InitCaptureWith([p \in Pids |-> [t \in Tags |-> PipedLines(p, t)]])

\* The first child has written one line to stdout, and nothing else is written.
InitSparse ==
    InitCaptureWith([p \in Pids |-> [t \in Tags |->
                         IF p = 1 /\ t = "STDOUT" THEN 1 ELSE 0]])

NextCapture ==
    \/ \E p \in Pids : AttachCall(p)
    \/ CaptureStopCall
    \/ \E op \in BufferOps : BufferCall(op)
    \/ BufferAcquire
    \/ BufferDo
    \/ Resume
    \/ \E tag \in Tags : JoinSkip(tag)
    \/ \E tag \in Tags : \E d \in WaitTicks(JoinGrace * TicksPerUnit) :
           JoinReturn(tag, d)
    \/ \E tag \in Tags : JoinExpired(tag)
    \/ \E p \in Pids : \E tag \in Tags : ReaderReadline(p, tag)
    \/ \E p \in Pids : \E tag \in Tags : ReaderFail(p, tag)
    \/ \E p \in Pids : \E tag \in Tags : ReaderAcquire(p, tag)
    \/ \E p \in Pids : \E tag \in Tags : ReaderAppend(p, tag)
    \/ \E p \in Pids : \E tag \in Tags : ReaderCheck(p, tag)
    \/ \E p \in Pids : ProcExit(p)

SpecCapture == InitCapture /\ [][NextCapture]_vars

\* The foreground thread goes on when it can take the lock or holds it, and so
\* does the reader that holds it. Nothing is assumed of a reader in readline,
\* of the joins or of the children: a child may never exit.
FairnessCapture ==
    /\ WF_vars(BufferAcquire)
    /\ WF_vars(BufferDo)
    /\ \A p \in Pids : \A t \in Tags : WF_vars(ReaderAppend(p, t))

SpecCaptureLive == InitSparse /\ [][NextCapture]_vars /\ FairnessCapture

\* Two sessions of one machine without the xpra executable, its /tmp/.X11-unix
\* empty at first, their calls interleaved in every way.
InitTwo == InitWith({{}})

NextTwo ==
    \/ NextNoMain
    \/ \E q \in EphemeralPorts : PeerConstruct(q)
    \/ PeerStartXvfb
    \/ PeerXvfbSettle

SpecTwo == InitTwo /\ [][NextTwo]_vars

\* signal dies. Nothing is assumed of the reader threads or of the live child
\* processes: they may never write, bind, exit or reach end-of-input.
Fairness == WF_vars(Foreground) /\ \A p \in Pids : WF_vars(ProcDie(p))

SpecLive == Spec /\ Fairness

\* ------------------------------------------------------------ properties

\* The call that has just returned (pc = "done") was a stop.
StopReturned == pc = "done" /\ call.op = "stop"

\* e is in stopLog, and a is in it before b.
Logged(e) == \E i \in 1..Len(stopLog) : stopLog[i] = e

LoggedBefore(a, b) ==
    \E i, j \in 1..Len(stopLog) : i < j /\ stopLog[i] = a /\ stopLog[j] = b

\* What stop does to a process, as logged.
UnwindEvents == {"term", "expired", "kill", "cleared"}

\* What start returns or raises.
StartResults == {"url", "AlreadyRunningError", "ResourceExhaustedError",
                 "OSError", "HelperStartupError", "ReadinessTimeoutError"}

\* C1: a start entered while a main process handle is recorded raises the
\* already-running error and changes nothing: the handles, the display, the
\* port and the capture are as before, and no process is spawned.
C1_SecondStartRejected ==
    [][(pc = "idle" /\ call'.op = "start" /\ process # None)
        => /\ pc' = "done"
           /\ result' = "AlreadyRunningError"
           /\ UNCHANGED <<sessionVars, captureVars, osVars>>]_vars

\* C1's case: a start was rejected, a main process handle being recorded.
C1_Witness ==
    /\ pc = "done"
    /\ call.op = "start"
    /\ result = "AlreadyRunningError"
    /\ process # None

\* C2: the step on which start returns the endpoint leaves is_running() true,
\* and the step on which stop returns leaves is_running() false.
C2_RunningAfterStartNotAfterStop ==
    [][(pc # "done" /\ pc' = "done")
        => /\ (result' = "url" => IsRunning')
           /\ (call'.op = "stop" => ~IsRunning')]_vars

\* C3: when stop returns, every line the main process it stopped has written to
\* stdout or stderr is in the capture buffer.
C3_NoOutputLost ==
    (StopReturned /\ call.main # None)
        => \A tag \in Tags : \A i \in 1..written[call.main][tag] :
               InBuffer(Entry(tag, call.main, i))

\* C4: when stop returns, the main and the helper handle are cleared, and the
\* processes they recorded when stop was entered have exited, whether they were
\* killed or not.
C4_StopClearsAndExits ==
    StopReturned
        => /\ process = None
           /\ xvfb_process = None
           /\ call.main # None => Exited(call.main)
           /\ call.helper # None => Exited(call.helper)

\* C4's case: stop has returned, having killed the main process and having seen
\* the helper exit within its wait.
C4_Witness ==
    /\ StopReturned
    /\ Logged(Ev("kill", "main"))
    /\ call.helper # None
    /\ Logged(Ev("cleared", "helper"))
    /\ ~Logged(Ev("kill", "helper"))

\* C5: for the main process and the helper separately, the kill signal is sent
\* only to a process that is alive when its bounded wait expires and that was
\* sent the graceful signal before the wait began (so one that exits within the
\* wait is never killed); and stop raises nothing, killing or not.
C5_GracefulBeforeForced ==
    /\ [](\A w \in Whiches :
             Logged(Ev("kill", w))
                 => /\ LoggedBefore(Ev("term", w), Ev("expired", w))
                    /\ LoggedBefore(Ev("expired", w), Ev("kill", w)))
    /\ [](StopReturned => result = "stopped")
    /\ [][\A p \in Pids :
             (procs[p].status # "dying" /\ procs'[p].status = "dying")
                 => \E w \in Whiches :
                        /\ pc = WaitPc(w)
                        /\ Handle(w) = p
                        /\ procs[p].status = "alive"
                        /\ Logged(Ev("term", w))
                        /\ clock' = clock + WaitLimit(w)]_vars

\* C5's case: stop has returned, having killed both the main process and the
\* helper.
C5_Witness ==
    /\ StopReturned
    /\ result = "stopped"
    /\ Logged(Ev("kill", "main"))
    /\ Logged(Ev("kill", "helper"))

\* C6, as stated: a main process that is still alive when its wait expires is
\* killed no later than timeout plus one tick after stop(timeout) was entered;
\* stop raises nothing; and a stop with the default timeout returns within the
\* default timeout.
C6_KilledWithinTimeout ==
    /\ pc = "reap_main" => clock <= call.timeout * TicksPerUnit + 1
    /\ StopReturned => result = "stopped"
    /\ (StopReturned /\ call.timeout = DefaultStopTimeout)
           => clock <= DefaultStopTimeout * TicksPerUnit

\* C6, amended: the capture's readers are joined first, each for up to JoinGrace,
\* so the main process is killed no later than (number of readers) * JoinGrace +
\* timeout after stop(timeout) was entered; stop raises nothing, and its bounded
\* waits add up to at most that plus the helper's timeout.
C6_KilledWithinGraceAndTimeout ==
    /\ pc = "reap_main"
           => clock <= (Cardinality(Tags) * JoinGrace + call.timeout) * TicksPerUnit
    /\ StopReturned
           => /\ result = "stopped"
              /\ clock <= (Cardinality(Tags) * JoinGrace + call.timeout
                               + XvfbStopTimeout) * TicksPerUnit

\* C6's case: the main process has ignored the graceful signal and was killed at
\* the latest possible moment of a stop with the default timeout.
C6_Witness ==
    /\ pc = "reap_main"
    /\ call.timeout = DefaultStopTimeout
    /\ Logged(Ev("kill", "main"))
    /\ clock = (Cardinality(Tags) * JoinGrace + call.timeout) * TicksPerUnit

\* C7: at most one spawned main process and at most one spawned helper are
\* alive, and every live process is recorded: as the main handle, as the helper
\* handle, or as the handle _start_xvfb is about to return.
C7_AtMostOneEachAndRecorded ==
    /\ Cardinality({p \in Pids : Alive(p) /\ procs[p].kind = "main"}) <= 1
    /\ Cardinality({p \in Pids : Alive(p) /\ procs[p].kind = "helper"}) <= 1
    /\ \A p \in Pids : Alive(p) => p \in {process, xvfb_process, call.h}

\* C8: when stop returns, the main handle, the helper handle and the display are
\* all back at their constructed value, None.
C8_NothingLingersAfterStop ==
    StopReturned
        => /\ process = None
           /\ xvfb_process = None
           /\ display = None

C10_EveryCallReturns ==
    /\ (call.op = "start" /\ pc # "done")
           ~> (pc = "done" /\ call.op = "start" /\ result \in StartResults)
    /\ (call.op = "stop" /\ pc # "done")
           ~> (StopReturned /\ result = "stopped")

\* C10's case: a start whose main process never bound the port and never wrote a
\* line has raised the readiness timeout, the process still alive.
C10_Witness ==
    /\ pc = "done"
    /\ call.op = "start"
    /\ result = "ReadinessTimeoutError"
    /\ IsRunning
    /\ TotalWritten = 0

\* C11: the step on which start raises the readiness timeout kills nothing and
\* forgets nothing: the main handle is recorded, the helper handle too if this
\* start launched a helper, the readers are attached to the main process with
\* the stop signal clear, and no field or process changes. A recorded handle
\* stays recorded until a stop clears it, and stop returns only with both
\* handles cleared and the processes they recorded exited.
C11_TimeoutLeavesAllForStop ==
    /\ [][(pc = "probe" /\ result' = "ReadinessTimeoutError")
            => /\ UNCHANGED <<sessionVars, captureVars, osVars>>
               /\ process # None
               /\ stdout_thread = process /\ stderr_thread = process
               /\ \A tag \in Tags : readers[process][tag].st # "none"
               /\ ~stop_event
               /\ WantsXvfb(call.xvfb) => xvfb_process = call.h]_vars
    /\ [][((process # None /\ process' # process)
               => (call.op = "stop" /\ process' = None))
           /\ ((xvfb_process # None /\ xvfb_process' = None)
                  => call.op = "stop")]_vars
    /\ [](StopReturned
            => /\ process = None /\ xvfb_process = None
               /\ \A p \in {call.main, call.helper} \ {None} : Exited(p))

\* C11's case: start has raised the readiness timeout with the main process and
\* the helper both alive and recorded.
C11_Witness ==
    /\ pc = "done"
    /\ call.op = "start"
    /\ result = "ReadinessTimeoutError"
    /\ Alive(process)
    /\ Alive(xvfb_process)
    /\ xvfb_process = call.h

\* Every number of the scanned range has its socket file.
RangeTaken == \A n \in DisplayFirst..(DisplayCeiling - 1) : SocketName(n) \in sockets

C13_HelperCheckedBeforeMain ==
    /\ [][(pc = "xvfb_settle" /\ call.op = "start" /\ pc' # pc)
            => IF Exited(call.h)
               THEN /\ pc' = "done"
                    /\ result' = "HelperStartupError"
                    /\ UNCHANGED <<sessionVars, captureVars, osVars>>
               ELSE /\ pc' = "spawn"
                    /\ xvfb_process' = call.h]_vars
    /\ [](call.op = "start" /\ result = "HelperStartupError" => process = None)
    /\ []((pc \in {"spawn", "probe"} /\ WantsXvfb(call.xvfb))
            => /\ call.h # None
               /\ xvfb_process = call.h
               /\ procs[call.h].kind = "helper")
    /\ [][(pc = "spawn" /\ pc' = "probe" /\ WantsXvfb(call.xvfb))
            => /\ procs'[process'].kind = "main"
               /\ procs'[process'].disp = procs[call.h].disp]_vars

\* C13's case: start has raised the helper-startup error, its helper having
\* exited before the check, and no main process was launched.
C13_Witness ==
    /\ pc = "done"
    /\ call.op = "start"
    /\ result = "HelperStartupError"
    /\ Exited(call.h)
    /\ process = None
    /\ \A p \in Pids : procs[p].kind # "main"

\* C14: is_running() returns true exactly when a main handle is recorded and the
\* process it records has not exited, and it changes no field of the session, of
\* the capture or of the processes.
C14_IsRunningPureQuery ==
    [][(pc = "idle" /\ call'.op = "is_running")
        => /\ pc' = "done"
           /\ result' \in {"True", "False"}
           /\ result' = "True"
                  <=> (process # None /\ procs[process].status # "exited")
           /\ UNCHANGED <<sessionVars, captureVars, osVars>>]_vars

\* C14's case: is_running() has answered false with a main handle recorded, the
\* process having exited.
C14_Witness ==
    /\ pc = "done"
    /\ call.op = "is_running"
    /\ result = "False"
    /\ process # None
    /\ buffer # <<>>

\* C15: off Linux, _find_free_display and _start_xvfb called on their own raise
\* the unsupported-platform error, which names the platform, and change nothing;
\* a start with use_xvfb on the same platform does not raise but warns, goes on
\* to launch the main process, starts no helper and allocates no display.
C15_PlatformGating ==
    /\ [][(pc = "idle" /\ platform # "Linux"
              /\ call'.op \in {"_find_free_display", "_start_xvfb"})
            => /\ pc' = "done"
               /\ result' = "UnsupportedPlatformError"
               /\ call'.named = platform
               /\ UNCHANGED <<sessionVars, captureVars, osVars>>]_vars
    /\ [][(pc = "idle" /\ platform # "Linux" /\ process = None
              /\ call'.op = "start" /\ call'.xvfb)
            => /\ pc' = "spawn"
               /\ call'.warned
               /\ UNCHANGED <<sessionVars, captureVars, osVars>>]_vars

\* No entry is a second name of a display: whatever int() reads as a number is
\* named as the scan names that number's socket.
NoAlias ==
    \A f \in sockets :
        (f # <<>> /\ Head(f) = "X" /\ ParseInt(Tail(f)).ok)
            => f = SocketName(ParseInt(Tail(f)).val)

\* C16: on Linux _find_free_display never returns a number outside 100..9999 or
\* one whose socket file exists; and when the directory's entries are sockets
\* named by their display (and names int() rejects), it returns the smallest
\* number of 100..9999 whose socket file does not exist, and raises the
\* resource-exhausted error exactly when every number of the range is taken.
C16_SmallestFreeDisplay ==
    (pc = "done" /\ call.op = "_find_free_display" /\ platform = "Linux")
        => /\ result \in {"display", "ResourceExhaustedError"}
           /\ result = "display"
                  => /\ call.ret \in DisplayFirst..(DisplayCeiling - 1)
                     /\ SocketName(call.ret) \notin sockets
           /\ result = "ResourceExhaustedError" => call.ret = None
           /\ NoAlias
                  => /\ result = "ResourceExhaustedError" <=> RangeTaken
                     /\ result = "display"
                            => \A m \in DisplayFirst..(call.ret - 1) :
                                   SocketName(m) \in sockets

\* C16's case: with the sockets of 100..105 present, and only those,
\* _find_free_display has returned 106.
C16_Witness ==
    /\ pc = "done"
    /\ call.op = "_find_free_display"
    /\ sockets = {SocketName(n) : n \in DisplayFirst..(DisplayFirst + 5)}
    /\ result = "display"
    /\ call.ret = DisplayFirst + 6

\* The helpers the two sessions launched and have not reaped.
OwnHelpers == {p \in {call.h, xvfb_process} \ {None} : procs[p].kind = "helper"}

PeerHelpers == {peer.h, peer.xvfb_process} \ {None}

\* C17: for two sessions whose starts interleave, no session is issued a display
\* whose socket file exists, and two helpers running at the same time, one of
\* each session, never hold the same display number.
C17_NoDisplayIssuedTwice ==
    /\ [][/\ (display' # display) => (SocketName(display') \notin sockets)
          /\ (peer'.display # peer.display)
                => (SocketName(peer'.display) \notin sockets)]_vars
    /\ [](\A p \in OwnHelpers : \A q \in PeerHelpers :
              (Alive(p) /\ Alive(q)) => procs[p].disp # procs[q].disp)

\* C18: two sessions constructed one after the other, neither having started
\* its main process, never hold the same auto-allocated port.
C18_PortsDiffer ==
    (peer.pc # "none" /\ process = None) => peer.port # port
\* C19: no step of start, stop, get_logs or is_running changes the session's
\* host or port, and a start that has returned its URL returned ws://host:port/
\* of the host and port of construction, which is the address the main process
\* was launched to bind and the address the probe connected to.
C19_EndpointFixed ==
    /\ [][host' = host /\ port' = port]_vars
    /\ [](\A h \in Hosts : \A q \in EphemeralPorts :
              (host = h /\ port = q /\ call.op = "start" /\ result = "url")
                  => /\ call.url = <<"ws", h, q>>
                     /\ call.probed = <<h, q>>
                     /\ process # None
                     /\ procs[process].bind = <<h, q>>)

\* The session's second start, after a stop that unwound the first main process,
\* has returned the URL of the second host and the second port.
C19_Witness ==
    /\ host = "0.0.0.0"
    /\ port = 14501
    /\ call.op = "start"
    /\ result = "url"
    /\ call.url = <<"ws", "0.0.0.0", 14501>>
    /\ process = 2
    /\ procs[1].kind = "main"
    /\ Exited(1)
\* A call returns or raises in this step.
Returns(r) == pc # "done" /\ pc' = "done" /\ result' = r

\* C20: start returns the URL only from the readiness probe, in a step in which
\* a connect to (host, port) succeeded; a failed connect leaves the probe going
\* and returns nothing; the readiness-timeout error is raised only from the
\* probe, once the deadline has passed, no connect having succeeded.
C20_ProbeDecidesStart ==
    [][/\ Returns("url")
          => (pc = "probe" /\ call.probed = <<>> /\ call'.probed = <<host, port>>)
       /\ (pc = "probe" /\ clock' # clock)
          => (pc' = "probe" /\ result' = result /\ call'.probed = <<>>)
       /\ Returns("ReadinessTimeoutError")
          => (/\ pc = "probe"
              /\ clock >= ProbeTimeout * TicksPerUnit
              /\ call'.probed = <<>>)]_vars

\* start has returned the URL after failed connects had been retried.
C20_Witness ==
    /\ call.op = "start"
    /\ result = "url"
    /\ call.probed = <<host, port>>
    /\ clock > 0
\* The probe called with timeout t has raised the readiness-timeout error.
ProbeTimedOut(t) ==
    /\ call.op = "_wait_for_socket"
    /\ call.timeout = t
    /\ result = "ReadinessTimeoutError"

\* C21 as stated: for an endpoint that never opens, the probe with timeout 1
\* raises no earlier than 1 and strictly earlier than 2 time units after the
\* call.
C21_TimeoutWithinOneToTwo ==
    ProbeTimedOut(1) => (clock >= TicksPerUnit /\ clock < 2 * TicksPerUnit)

\* C21 as amended: the probe with timeout 1 raises no earlier than 1 time unit
\* and strictly earlier than 2.2 time units (timeout, one connect timeout and
\* one poll sleep) after the call.
C21_TimeoutWithinOvershoot ==
    ProbeTimedOut(1)
        => /\ clock >= TicksPerUnit
           /\ clock < (1 + ConnectTimeout) * TicksPerUnit + 1

\* The probe with timeout 1 has raised 2 time units after the call: its last
\* attempt began at 0.8 and ran into the connect timeout.
C21_Witness == ProbeTimedOut(1) /\ clock = 2 * TicksPerUnit
\* get_lines() has returned, and the caller's call before it was clear().
LinesAfterClear ==
    /\ call.op = "get_lines"
    /\ call.prev = "clear"
    /\ result = "lines"

\* C22 as stated: clear() followed by get_lines() yields an empty sequence, in
\* every state of the capture, also while readers are attached and running.
C22_ClearThenEmpty == LinesAfterClear => call.out = <<>>

\* C22 as amended: clear() empties the buffer, and get_lines() called next
\* yields an empty sequence when no reader thread was running as clear() was
\* called.
C22_ClearThenEmptyWhenQuiet ==
    /\ [][(pc = "locked" /\ pc' = "done" /\ call.op = "clear")
             => buffer' = <<>>]_vars
    /\ []((LinesAfterClear /\ call.quiet) => call.out = <<>>)

\* get_lines() has returned the empty sequence after a clear() called when the
\* readers of the first child had read every line and terminated.
C22_Witness ==
    /\ LinesAfterClear
    /\ call.quiet
    /\ call.out = <<>>
    /\ \A t \in Tags : /\ readers[1][t].st = "done"
                        /\ readers[1][t].n = PipedLines(1, t)
\* C23: the entries of one stream are in the buffer in the order the stream
\* produced them, none twice; each entry carries the tag of the stream whose
\* reader has read it; and what get_output returns is the lines of the buffer
\* it was called on, in their order, with one newline between two lines.
C23_ArrivalOrder ==
    /\ [](\A i, j \in 1..Len(buffer) :
              (i < j /\ buffer[i].pid = buffer[j].pid /\ buffer[i].tag = buffer[j].tag)
                  => buffer[i].idx < buffer[j].idx)
    /\ [](\A i \in 1..Len(buffer) :
              /\ buffer[i].tag \in Tags
              /\ buffer[i].idx \in 1..readers[buffer[i].pid][buffer[i].tag].n)
    /\ [][(pc = "locked" /\ pc' = "done" /\ call.op = "get_output")
             => /\ Len(call'.out) = (IF buffer = <<>> THEN 0 ELSE 2 * Len(buffer) - 1)
                /\ \A k \in 1..Len(buffer) : call'.out[2 * k - 1] = buffer[k]
                /\ \A k \in 1..(Len(buffer) - 1) : call'.out[2 * k] = Newline]_vars

\* get_output has returned the three lines of the first child, the stderr line
\* between the two stdout lines.
C23_Witness ==
    /\ call.op = "get_output"
    /\ result = "output"
    /\ call.out = <<Entry("STDOUT", 1, 1), Newline, Entry("STDERR", 1, 1), Newline,
                    Entry("STDOUT", 1, 2)>>
\* The thread that holds the lock is inside its `with self._lock:` block.
HolderInBlock ==
    /\ lock = ForegroundThread => pc = "locked"
    /\ \A p \in Pids : \A t \in Tags :
           lock = ThreadId(p, t) => readers[p][t].st = "locked"

\* C24: the buffer is read and written only by the thread that holds the lock;
\* the holder is never in a stream read or a thread join; and a get_output,
\* get_lines or clear that was called returns, also when the readers stay
\* blocked on streams that produce nothing.
C24_LockDiscipline ==
    /\ [][/\ (buffer' # buffer) => (lock # None /\ lock' = None)
          /\ (call.op \in BufferOps /\ call'.op = call.op /\ call'.out # call.out)
                => lock = ForegroundThread]_vars
    /\ []HolderInBlock
    /\ [](lock \in {None, ForegroundThread}
              \cup {ThreadId(p, t) : p \in Pids, t \in Tags})
    /\ ((pc = "acquire") ~> (pc = "done"))

\* clear has returned while both readers of the first child are in readline,
\* the stdout line read and nothing more to come.
C24_Witness ==
    /\ call.op = "clear"
    /\ pc = "done"
    /\ \A t \in Tags : readers[1][t].st = "read"
    /\ readers[1]["STDOUT"].n = 1
    /\ procs[1].status = "alive"
\* attach has raised the invalid-process error.
AttachRaised == call.op = "attach" /\ result = "InvalidProcessError"

\* C25: attach raises the invalid-process error exactly for a process whose
\* stdout or stderr stream is absent, and the raising attach changes nothing:
\* no reader thread is created or started, the stop signal is not cleared, the
\* buffer and the recorded threads are as before.
C25_AttachRejectsUnpiped ==
    [][(call'.op = "attach" /\ pc = "idle" /\ pc' = "done")
         => /\ (result' = "InvalidProcessError") <=> (procs[call'.h].pipes # Tags)
            /\ (result' = "InvalidProcessError")
                  => /\ readers' = readers
                     /\ stop_event' = stop_event
                     /\ buffer' = buffer
                     /\ stdout_thread' = stdout_thread
                     /\ stderr_thread' = stderr_thread]_vars

\* attach has raised for a child with stdout piped and stderr not, after a stop
\* of the capture: the stop signal is still set and the first child's lines are
\* in the buffer.
C25_Witness ==
    /\ AttachRaised
    /\ procs[call.h].pipes = {"STDOUT"}
    /\ stop_event
    /\ Len(buffer) > 0
\* LogCapture.stop has returned.
CaptureStopped == call.op = "capture_stop" /\ pc = "done"

\* C26: LogCapture.stop sets the stop signal and returns within the grace
\* period of each of the two readers, finished or not; a reader on which a stop
\* has set the signal terminates at its next look at the signal, after at most
\* one further line, and never reads again; a reader blocked in a read with
\* nothing to read terminates only at end-of-input.
C26_StopBoundedOneMoreLine ==
    /\ [][(pc = "idle" /\ call'.op = "capture_stop") => stop_event']_vars
    /\ [](CaptureStopped => (stop_event /\ clock <= 2 * JoinGrace * TicksPerUnit))
    /\ [][\A p \in Pids : \A t \in Tags :
              (procs[p].stopped /\ readers[p][t].st = "check")
                  => readers'[p][t].st \in {"check", "done"}]_vars
    /\ [][\A p \in Pids : \A t \in Tags :
              (/\ readers[p][t].st = "read"
               /\ readers[p][t].n = written[p][t]
               /\ readers'[p][t].st = "done") => Exited(p)]_vars
\* The reader of process p's pipe tag is started and not over.
Running(p, tag) == readers[p][tag].st \notin {"none", "done"}

\* C27: the step in which a reader terminates, at end-of-input or on a failed
\* read, leaves every other reader where it was, signals no process, sets no
\* stop signal, and raises nothing on the foreground thread.
C27_ReaderIsolation ==
    [][\A p \in Pids : \A t \in Tags :
          (Running(p, t) /\ readers'[p][t].st = "done")
              => /\ \A q \in Pids : \A u \in Tags :
                        (<<q, u>> # <<p, t>>) => readers'[q][u] = readers[q][u]
                 /\ procs' = procs
                 /\ UNCHANGED <<stop_event, stdout_thread, stderr_thread, buffer, lock>>
                 /\ UNCHANGED <<pc, call, result>>]_vars

\* The stdout reader of the first child is over, its read having failed (the
\* child is alive and no stop was called), and the stderr reader is appending
\* its line.
C27_Witness ==
    /\ readers[1]["STDOUT"].st = "done"
    /\ procs[1].status = "alive"
    /\ ~procs[1].stopped
    /\ readers[1]["STDERR"].st = "locked"
    /\ result # "InvalidProcessError"

\* C28: at most two reader threads are running at any time, those of the
\* process the capture was attached to last, and a line is appended only by a
\* reader of that process.
C28_TwoReadersOfLastAttachment ==
    /\ [](Cardinality({pt \in Pids \X Tags : Running(pt[1], pt[2])}) <= 2)
    /\ [](\A p \in Pids : \A t \in Tags : Running(p, t) => ThreadOf(t) = p)
    /\ [][(Len(buffer') = Len(buffer) + 1)
             => LET e == buffer'[Len(buffer')]
                IN  ThreadOf(e.tag) = e.pid]_vars

\* The main process is launched.
MainLaunched == pc = "spawn" /\ pc' = "probe"

\* C29: the argument list of the main process has a display argument exactly
\* when the start that launches it has launched a helper, and then it names that
\* helper's display; the extra arguments the caller gave are its last
\* arguments, in the order given, after the default arguments and the display
\* argument.
C29_DisplayArgOfThisStart ==
    [][MainLaunched
          => LET a == procs'[process'].args
                 n == Len(a) - Len(call.extra)
                 shown == {i \in 1..n : a[i].opt = "--display"}
             IN  /\ (shown # {}) <=> (call.h # None)
                 /\ \A i \in shown : a[i].val = <<procs[call.h].disp>>
                 /\ n >= Len(DefaultArgs)
                 /\ SubSeq(a, 1, Len(DefaultArgs)) = DefaultArgs
                 /\ SubSeq(a, n + 1, Len(a)) = call.extra
                 /\ \A i \in shown : i > Len(DefaultArgs)]_vars

\* The teardown of the xpra_server fixture has run.
TornDown == pc = "over" \/ (pc = "done" /\ call.fixture)

\* C30: once the teardown of the xpra_server fixture has run, no main process
\* and no helper process the session spawned is alive, whatever the test did.
C30_FixtureLeavesNothingAlive ==
    TornDown => \A p \in Pids : procs[p].kind \in {"main", "helper"} => ~Alive(p)

\* C33: a start is rejected with the already-running error exactly when a main
\* process handle is recorded as it is entered, whether or not that process is
\* alive; with no handle recorded (a fresh session, after stop, after a start
\* that failed before the launch) it is not rejected.
C33_RejectedIffRecorded ==
    [][(pc = "idle" /\ call'.op = "start")
          => ((pc' = "done" /\ result' = "AlreadyRunningError")
                  <=> (process # None))]_vars

\* C33's case: a start was rejected while the recorded main process had exited
\* on its own, is_running() being false.
C33_Witness ==
    /\ pc = "done"
    /\ call.op = "start"
    /\ result = "AlreadyRunningError"
    /\ Exited(process)
    /\ ~IsRunning

\* stop is entered with no handle recorded: the session was never started, or
\* was stopped since its last launch.
IdleStopEntered ==
    /\ pc = "idle"
    /\ call'.op = "stop"
    /\ process = None
    /\ xvfb_process = None

\* Such a stop is going on.
IdleStopRunning ==
    /\ call.op = "stop"
    /\ call.main = None
    /\ call.helper = None
    /\ pc \notin {"idle", "done", "over"}

\* C34: a stop entered with no handle recorded (on a session never started, or
\* right after a stop) raises nothing, sends no signal to any process, and
\* returns with no handle recorded and the buffer as it was when stop was
\* entered.
C34_IdleStopChangesNothing ==
    /\ []((StopReturned /\ call.main = None /\ call.helper = None)
              => /\ result = "stopped"
                 /\ ~Logged(Ev("term", "main")) /\ ~Logged(Ev("term", "helper"))
                 /\ ~Logged(Ev("kill", "main")) /\ ~Logged(Ev("kill", "helper"))
                 /\ process = None
                 /\ xvfb_process = None)
    /\ [][(IdleStopEntered \/ IdleStopRunning) => buffer' = buffer]_vars

\* a is a prefix of b.
IsPrefix(a, b) == Len(a) <= Len(b) /\ SubSeq(b, 1, Len(a)) = a

\* The step in which clear() empties the buffer.
ClearStep == pc = "locked" /\ call.op = "clear" /\ pc' = "done"

\* C32: across every step that is not clear()'s, the buffer before the step is
\* a prefix of the buffer after it; and get_logs returns the buffer's lines
\* joined, the lines of an earlier run among them.
C32_AppendOnlyButClear ==
    /\ [][~ClearStep => IsPrefix(buffer, buffer')]_vars
    /\ [][(pc = "idle" /\ call'.op = "get_logs")
             => call'.out = JoinLines(buffer)]_vars

\* C32's case: after a stop and a later start on the same session, get_logs
\* has returned the line captured from the first main process.
C32_Witness ==
    /\ pc = "done"
    /\ call.op = "get_logs"
    /\ process # None
    /\ Len(buffer) > 0
    /\ buffer[1].pid # process
    /\ call.out = JoinLines(buffer)

\* The client's handles.
AllSet(c) == c.playwright # None /\ c.browser # None /\ c.page # None

NoneSet(c) == c.playwright = None /\ c.browser = None /\ c.page = None

\* No call of the client is going on.
ClientAtRest == pc \in {"idle", "done"}

\* C35: a connected client has its three handles set, and a client that is not
\* connected, no connect going on, has none of them set; connect on a connected
\* client raises and changes nothing; a page operation raises the not-connected
\* error exactly when the client is not connected; disconnect leaves the client
\* not connected with its handles cleared.
C35_ConnectedIffHandles ==
    /\ [](client.connected => AllSet(client))
    /\ []((~client.connected /\ ClientAtRest) => NoneSet(client))
    /\ [][(pc = "idle" /\ call'.op = "connect" /\ client.connected)
             => /\ pc' = "done"
                /\ result' = "AlreadyConnectedError"
                /\ client' = client]_vars
    /\ [][(pc = "idle" /\ call'.op \in PageOps)
             => /\ pc' = "done"
                /\ (result' = "NotConnectedError") <=> ~client.connected
                /\ client' = client]_vars
    /\ [][(pc = "idle" /\ call'.op = "disconnect")
             => /\ pc' = "done"
                /\ result' = "None"
                /\ ~client'.connected
                /\ NoneSet(client')]_vars

\* start_gui is entered.
StartGuiEntered ==
    pc = "idle" /\ testcase.phase = "test" /\ call'.op = "start_gui"

\* C31: start_gui raises 'Server already running' exactly when a server is
\* recorded, and otherwise records the server before its start is entered, so
\* that every start is made on the recorded server and tearDown does not end
\* without stop having been called on a recorded server; after tearDown server
\* and client are None.
C31_TestCaseLifecycle ==
    /\ [][StartGuiEntered
             => /\ (pc' = "done" /\ result' = "ServerAlreadyRunningError")
                      <=> testcase.server # None
                /\ testcase'.server # None]_vars
    /\ []((call.op = "start" /\ pc # "idle") => testcase.server # None)
    /\ [][(testcase.phase = "teardown" /\ testcase'.phase = "over"
               /\ testcase.server # None)
             => (pc = "done" /\ call.op = "stop")]_vars
    /\ [](testcase.phase = "over"
             => testcase.server = None /\ testcase.client = None)

\* C31's case: a second start_gui was accepted in a test that had started a
\* first application, disconnected its client, stopped its server and reset
\* server and client to None.
C31_Witness ==
    /\ testcase.phase = "start_gui"
    /\ call.op = "start_gui"
    /\ testcase.server # None
    /\ testcase.client = None
    /\ ~client.connected /\ NoneSet(client) /\ Constructed
    /\ \E p \in Pids : procs[p].kind = "main" /\ procs[p].stopped /\ Exited(p)
====
